---- MODULE Spec2Model ----
(***************************************************************************)
(* Model of the EMF hotspot engine of StDb-Scout (package emf_hotspot):     *)
(* field kernel and power summation (physics/), the serial and the pooled   *)
(* driver, the line-of-sight pass (geometry/line_of_sight.py) and the       *)
(* threshold re-evaluation of analyze_site (main.py).                       *)
(*                                                                          *)
(* Floating point values are fixed-point integers:                          *)
(*   coordinates            whole metres                                    *)
(*   distances              decimetres (0.1 m), square roots rounded down   *)
(*   field strengths        0.1 V/m, square roots rounded down              *)
(*   angles                 half degrees (1 unit = 0.5 deg); arctan is      *)
(*                          rounded towards zero to a whole degree          *)
(*   attenuations           whole dB, interpolation rounded down            *)
(***************************************************************************)
EXTENDS Integers, Sequences, FiniteSets, TLC

(***************************************************************************)
(* Program constants (config.py, summation.py)                              *)
(***************************************************************************)
\* config.py: AGW_LIMIT_VM = 5.0 V/m, in 0.1 V/m
AGW_LIMIT_VM == 50
\* config.py: E_FIELD_CONSTANT = 49.0
E_FIELD_CONSTANT == 49
\* config.py: MIN_DISTANCE_M = 0.1 m, in decimetres
MIN_DISTANCE_M == 1
\* summation.py: min_v_attenuation = float('inf')
INF == 999999
\* line_of_sight.py: attenuation_per_building = 12.0 dB
attenuation_per_building == 12
\* config.py: DEFAULT_RADIUS_M = 200.0 m
DEFAULT_RADIUS_M == 200

(***************************************************************************)
(* Arithmetic helpers standing for the float operations of numpy            *)
(***************************************************************************)
Abs(x) == IF x < 0 THEN -x ELSE x

RECURSIVE SqrtSearch(_, _, _)
SqrtSearch(n, lo, hi) ==
    IF lo >= hi THEN lo
    ELSE IF ((lo + hi + 1) \div 2) * ((lo + hi + 1) \div 2) <= n
         THEN SqrtSearch(n, (lo + hi + 1) \div 2, hi)
         ELSE SqrtSearch(n, lo, ((lo + hi + 1) \div 2) - 1)

\* np.sqrt, rounded down to the unit of the argument's root
Sqrt(n) ==
    IF n <= 0 THEN 0
    ELSE IF n < 65536 THEN SqrtSearch(n, 0, 255)
    ELSE IF n < 16777216 THEN SqrtSearch(n, 256, 4095)
    ELSE SqrtSearch(n, 4096, 46340)

RECURSIVE Pow10(_)
Pow10(k) == IF k <= 0 THEN 1 ELSE 10 * Pow10(k - 1)

\* 1000 * 10^(-i/10) for i = 0..9 (index i+1)
InvGammaMilli == <<1000, 794, 631, 501, 398, 316, 251, 200, 158, 126>>

\* x / gamma with gamma = 10^(db/10), applied only when db > 0
DivideByGamma(x, db) ==
    IF db > 0
    THEN IF db \div 10 > 9 THEN 0
         ELSE LET y == x \div Pow10(db \div 10)
                  f == InvGammaMilli[(db % 10) + 1]
              IN (y \div 1000) * f + ((y % 1000) * f) \div 1000
    ELSE x

\* 1000 * tan(d deg) for d = 1..89
TanMilli == <<
    17, 35, 52, 70, 87, 105, 123, 141, 158, 176,
    194, 213, 231, 249, 268, 287, 306, 325, 344, 364,
    384, 404, 424, 445, 466, 488, 510, 532, 554, 577,
    601, 625, 649, 675, 700, 727, 754, 781, 810, 839,
    869, 900, 933, 966, 1000, 1036, 1072, 1111, 1150, 1192,
    1235, 1280, 1327, 1376, 1428, 1483, 1540, 1600, 1664, 1732,
    1804, 1881, 1963, 2050, 2145, 2246, 2356, 2475, 2605, 2747,
    2904, 3078, 3271, 3487, 3732, 4011, 4331, 4705, 5145, 5671,
    6314, 7115, 8144, 9514, 11430, 14301, 19081, 28636, 57290 >>

\* the largest d in lo..hi with tan(d) * adj <= opp (tan(0) = 0)
RECURSIVE AtanSearch(_, _, _, _)
AtanSearch(opp, adj, lo, hi) ==
    IF lo >= hi THEN lo
    ELSE IF TanMilli[(lo + hi + 1) \div 2] * adj <= opp * 1000
         THEN AtanSearch(opp, adj, (lo + hi + 1) \div 2, hi)
         ELSE AtanSearch(opp, adj, lo, ((lo + hi + 1) \div 2) - 1)

\* degrees(arctan2(opp, adj)) for opp >= 0, adj > 0, whole degrees 0..89
AtanDeg(opp, adj) == AtanSearch(opp, adj, 0, 89)

\* degrees(arctan2(a, b)) in whole degrees, -180 < result <= 180
Atan2Deg(a, b) ==
    IF b > 0 THEN (IF a >= 0 THEN AtanDeg(a, b) ELSE -AtanDeg(-a, b))
    ELSE IF b = 0 THEN (IF a > 0 THEN 90 ELSE IF a < 0 THEN -90 ELSE 0)
    ELSE (IF a >= 0 THEN 180 - AtanDeg(a, -b) ELSE AtanDeg(-a, -b) - 180)

(***************************************************************************)
(* geometry/angles.py                                                       *)
(***************************************************************************)
\* azimuth in half degrees, [0, 720)
calculate_azimuth(dx, dy) == (2 * Atan2Deg(dx, dy)) % 720

\* elevation in half degrees, [-180, 180]; horizontal distance in decimetres
calculate_elevation(horizontal_distance, dz) ==
    IF horizontal_distance < 1
    THEN (IF dz > 0 THEN 180 ELSE IF dz < 0 THEN -180 ELSE 0)
    ELSE 2 * Atan2Deg(dz, horizontal_distance)

\* <<distance_3d [dm], rel_azimuth, rel_elevation>>
calculate_relative_angles(antenna_pos, point_pos, antenna_azimuth, antenna_tilt) ==
    LET dx == point_pos[1] - antenna_pos.e
        dy == point_pos[2] - antenna_pos.n
        dz == point_pos[3] - antenna_pos.h
        horizontal_distance == Sqrt(100 * (dx * dx + dy * dy))
        distance_3d == Sqrt(100 * (dx * dx + dy * dy + dz * dz))
        point_azimuth == calculate_azimuth(dx, dy)
        rel_azimuth == ((point_azimuth - antenna_azimuth + 360) % 720) - 360
        point_elevation == calculate_elevation(horizontal_distance, 10 * dz)
        rel_elevation == point_elevation - antenna_tilt
    IN <<distance_3d, rel_azimuth, rel_elevation>>

(***************************************************************************)
(* models.py: AntennaPattern                                                *)
(***************************************************************************)
RECURSIVE SeqMax(_)
SeqMax(s) ==
    IF Len(s) = 1 THEN s[1]
    ELSE LET m == SeqMax(Tail(s)) IN IF s[1] >= m THEN s[1] ELSE m

\* np.interp(x, xp, fp): held at the edge samples outside [xp[1], xp[n]]
Interp(x, xp, fp) ==
    LET n == Len(xp) IN
    IF x <= xp[1] THEN fp[1]
    ELSE IF x >= xp[n] THEN fp[n]
    ELSE LET i == CHOOSE k \in 1..(n - 1) : xp[k] <= x /\ x < xp[k + 1]
         IN fp[i] + ((fp[i + 1] - fp[i]) * (x - xp[i])) \div (xp[i + 1] - xp[i])

\* a lookup that interpolates at the angle as given
get_h_attenuation_unwrapped(pattern, azimuth_rel) ==
    SeqMax(pattern.h_gains) - Interp(azimuth_rel, pattern.h_angles, pattern.h_gains)

get_h_attenuation(pattern, azimuth_rel) ==
    LET h_angle == azimuth_rel % 720
        h_gain == Interp(h_angle, pattern.h_angles, pattern.h_gains)
        max_h == SeqMax(pattern.h_gains)
    IN max_h - h_gain

get_v_attenuation(pattern, elevation_rel) ==
    LET v_angle == elevation_rel % 720
        v_gain == Interp(v_angle, pattern.v_angles, pattern.v_gains)
        max_v == SeqMax(pattern.v_gains)
    IN max_v - v_gain

(***************************************************************************)
(* physics/propagation.py                                                   *)
(***************************************************************************)
\* E [0.1 V/m] = sqrt(K * ERP / (gamma_h * gamma_v * gamma_building)) / d
calculate_e_field_with_pattern(erp_watts, distance_m, h_attenuation_db, v_attenuation_db, building_attenuation_db) ==
    LET d == IF distance_m < MIN_DISTANCE_M THEN MIN_DISTANCE_M ELSE distance_m
    IN IF erp_watts <= 0 THEN 0
       ELSE Sqrt(DivideByGamma(DivideByGamma(DivideByGamma(
                    10000 * E_FIELD_CONSTANT * erp_watts,
                    h_attenuation_db), v_attenuation_db), building_attenuation_db))
            \div d

(***************************************************************************)
(* loaders/pattern_loader_ods.py                                            *)
(***************************************************************************)
\* the value None of patterns.get(key, None)
NoPattern == [present |-> FALSE]

get_pattern_for_antenna(pats, antenna_type, frequency_band) ==
    IF <<antenna_type, frequency_band>> \in DOMAIN pats
    THEN pats[<<antenna_type, frequency_band>>]
    ELSE NoPattern

(***************************************************************************)
(* physics/summation.py                                                     *)
(***************************************************************************)
\* int(x) of a tilt given in half degrees: whole degrees, truncated towards 0
IntDeg(a) == IF a >= 0 THEN a \div 2 ELSE -((-a) \div 2)

\* range(lo, hi + 1) in whole degrees, as tilts in half degrees
RECURSIVE RangeTilts(_, _)
RangeTilts(lo, hi) == IF lo > hi THEN <<>> ELSE <<2 * lo>> \o RangeTilts(lo + 1, hi)

\* a sweep written range(tilt_from, tilt_to): the last tilt is not evaluated
tilt_range_without_last(antenna) ==
    LET tilt_from == IntDeg(antenna.tilt_from_deg)
        tilt_to == IntDeg(antenna.tilt_to_deg)
    IN IF tilt_from = tilt_to THEN <<antenna.tilt_deg>>
       ELSE RangeTilts(tilt_from, tilt_to - 1)

\* the tilts the worst-case search evaluates, in half degrees
tilt_range(antenna) ==
    LET tilt_from == IntDeg(antenna.tilt_from_deg)
        tilt_to == IntDeg(antenna.tilt_to_deg)
    IN IF tilt_from = tilt_to THEN <<antenna.tilt_deg>>
       ELSE RangeTilts(tilt_from, tilt_to)

\* state of the search before the first tilt
TiltSearchInit(antenna) ==
    [min_v_attenuation |-> INF, critical_tilt |-> antenna.tilt_deg,
     critical_distance |-> 0, critical_azimuth |-> 0, critical_elevation |-> 0]

\* "if v_atten < min_v_attenuation": the tilt becomes the critical one
TiltSearchUpdate(st, tilt, ang, v_atten) ==
    IF v_atten < st.min_v_attenuation
    THEN [min_v_attenuation |-> v_atten, critical_tilt |-> tilt,
          critical_distance |-> ang[1], critical_azimuth |-> ang[2],
          critical_elevation |-> ang[3]]
    ELSE st

\* v attenuation read for the relative angles of one tilt
TiltVAtten(pattern, ang) ==
    IF pattern.present THEN get_v_attenuation(pattern, ang[3]) ELSE 0

TiltSearchAt(st, pattern, tilt, ang) ==
    TiltSearchUpdate(st, tilt, ang, TiltVAtten(pattern, ang))

\* one iteration of "for tilt in tilt_range"
TiltSearchStep(st, pattern, antenna, point_pos, tilt) ==
    TiltSearchAt(st, pattern, tilt,
                 calculate_relative_angles(antenna.position, point_pos,
                                           antenna.azimuth_deg, tilt))

RECURSIVE TiltSearch(_, _, _, _, _)
TiltSearch(st, pattern, antenna, point_pos, tilts) ==
    IF tilts = <<>> THEN st
    ELSE TiltSearch(TiltSearchStep(st, pattern, antenna, point_pos, Head(tilts)),
                    pattern, antenna, point_pos, Tail(tilts))

\* the contribution recorded for the critical values st
ContributionOf(antenna, st, h_atten, v_atten, building_attenuation_db) ==
    [antenna_id |-> antenna.id,
     e_field_vm |-> calculate_e_field_with_pattern(antenna.erp_watts,
                        st.critical_distance, h_atten, v_atten,
                        building_attenuation_db),
     critical_tilt_deg |-> st.critical_tilt,
     distance_m |-> st.critical_distance,
     h_attenuation_db |-> h_atten, v_attenuation_db |-> v_atten]

\* h and v attenuation taken for the critical tilt ("if pattern: ... else: 0.0")
ContributionWith(antenna, pattern, st, building_attenuation_db) ==
    ContributionOf(antenna, st,
        IF pattern.present THEN get_h_attenuation(pattern, st.critical_azimuth) ELSE 0,
        IF pattern.present THEN st.min_v_attenuation ELSE 0,
        building_attenuation_db)

ContributionFor(point_pos, antenna, pattern, building_attenuation_db) ==
    ContributionWith(antenna, pattern,
        TiltSearch(TiltSearchInit(antenna), pattern, antenna, point_pos,
                   tilt_range(antenna)),
        building_attenuation_db)

\* the AntennaContribution of one antenna at one point
AntennaContribution(point, antenna, pats, building_attenuation_db) ==
    ContributionFor(<<point.x, point.y, point.z>>, antenna,
        get_pattern_for_antenna(pats, antenna.antenna_type, antenna.frequency_band),
        building_attenuation_db)

\* contributions.insert(0, contribution)
PrependContribution(contributions, contribution) == <<contribution>> \o contributions

\* contributions.append(contribution)
AppendContribution(contributions, contribution) == Append(contributions, contribution)

RECURSIVE ContributionLoop(_, _, _, _, _)
ContributionLoop(point, ants, pats, building_attenuation_db, contributions) ==
    IF ants = <<>> THEN contributions
    ELSE ContributionLoop(point, Tail(ants), pats, building_attenuation_db,
            AppendContribution(contributions,
                AntennaContribution(point, Head(ants), pats, building_attenuation_db)))

RECURSIVE SumSquares(_)
SumSquares(e_fields) ==
    IF e_fields = <<>> THEN 0
    ELSE e_fields[1] * e_fields[1] + SumSquares(Tail(e_fields))

RECURSIVE SumLinear(_)
SumLinear(e_fields) ==
    IF e_fields = <<>> THEN 0 ELSE e_fields[1] + SumLinear(Tail(e_fields))

\* a coherent sum: E_total = sum of E_i
sum_e_fields_linear(e_fields) == SumLinear(e_fields)

\* a root mean square: np.mean in place of np.sum
sum_e_fields_mean(e_fields) ==
    IF e_fields = <<>> THEN 0 ELSE Sqrt(SumSquares(e_fields) \div Len(e_fields))

\* E_total = sqrt(sum of E_i^2)
sum_e_fields(e_fields) == Sqrt(SumSquares(e_fields))

\* the limit the aggregator compares the total against
ExceedsLimit(e_total) == e_total >= AGW_LIMIT_VM

RECURSIVE EValues(_)
EValues(contributions) ==
    IF contributions = <<>> THEN <<>>
    ELSE <<Head(contributions).e_field_vm>> \o EValues(Tail(contributions))

\* the HotspotResult; its LOS attributes do not exist yet (los_set, free_set)
HotspotResult(point, e_total, contributions) ==
    [building_id |-> point.building_id, x |-> point.x, y |-> point.y,
     z |-> point.z, e_field_vm |-> e_total,
     exceeds_limit |-> ExceedsLimit(e_total),
     contributions |-> contributions,
     los_set |-> FALSE, has_los |-> TRUE, num_buildings_blocking |-> 0,
     building_attenuation_db |-> 0, blocking_building_ids |-> <<>>,
     free_set |-> FALSE, e_field_free_vm |-> 0]

ResultFromContributions(point, contributions) ==
    HotspotResult(point, sum_e_fields(EValues(contributions)), contributions)

calculate_total_e_field_at_point(point, ants, pats, building_attenuation_db) ==
    ResultFromContributions(point,
        ContributionLoop(point, ants, pats, building_attenuation_db, <<>>))

RECURSIVE calculate_all_points(_, _, _, _)
calculate_all_points(pts, ants, pats, building_attenuation_db) ==
    IF pts = <<>> THEN <<>>
    ELSE <<calculate_total_e_field_at_point(Head(pts), ants, pats,
                                            building_attenuation_db)>>
         \o calculate_all_points(Tail(pts), ants, pats, building_attenuation_db)

(***************************************************************************)
(* geometry/line_of_sight.py                                                *)
(* Coordinates are whole metres, so the Moeller-Trumbore test is computed   *)
(* exactly on integers with the unnormalised direction D = end - start:     *)
(* with L = |D|, the code's a, u, v, t are a = A/L, u = U/A, v = V/A and    *)
(* t = L*T/A for the integers A, U, V, T below.                             *)
(***************************************************************************)
Cross(p, q) == <<p[2] * q[3] - p[3] * q[2], p[3] * q[1] - p[1] * q[3], p[1] * q[2] - p[2] * q[1]>>

Dot(p, q) == p[1] * q[1] + p[2] * q[2] + p[3] * q[3]

Sub(p, q) == <<p[1] - q[1], p[2] - q[2], p[3] - q[3]>>

\* the test without the upper bound on t: the ray instead of the segment
ray_triangle_intersection_unbounded(ray_origin, ray_dir, v0, v1, v2) ==
    LET edge1 == Sub(v1, v0)
        edge2 == Sub(v2, v0)
        h == Cross(ray_dir, edge2)
        A == Dot(edge1, h)
        s == Sub(ray_origin, v0)
        U == Dot(s, h)
        q == Cross(s, edge1)
        V == Dot(ray_dir, q)
        T == Dot(edge2, q)
        sg == IF A > 0 THEN 1 ELSE -1
    IN /\ A # 0
       /\ sg * U >= 0 /\ sg * U <= sg * A
       /\ sg * V >= 0 /\ sg * (U + V) <= sg * A
       /\ sg * T > 0

\* TRUE iff the code returns a t (not None) with 0 <= t <= ray_length
ray_triangle_intersection(ray_origin, ray_dir, v0, v1, v2) ==
    LET edge1 == Sub(v1, v0)
        edge2 == Sub(v2, v0)
        h == Cross(ray_dir, edge2)
        A == Dot(edge1, h)
        s == Sub(ray_origin, v0)
        U == Dot(s, h)
        q == Cross(s, edge1)
        V == Dot(ray_dir, q)
        T == Dot(edge2, q)
        sg == IF A > 0 THEN 1 ELSE -1
    IN /\ A # 0                                  \* abs(a) >= epsilon
       /\ sg * U >= 0 /\ sg * U <= sg * A        \* 0 <= u <= 1
       /\ sg * V >= 0 /\ sg * (U + V) <= sg * A  \* v >= 0, u + v <= 1
       /\ sg * T > 0                             \* t > epsilon
       /\ sg * T <= sg * A                       \* t <= ray_length

RECURSIVE FanHit(_, _, _, _)
FanHit(ray_origin, ray_dir, vertices, i) ==
    IF i > Len(vertices) - 1 THEN FALSE
    ELSE \/ ray_triangle_intersection(ray_origin, ray_dir, vertices[1],
                                      vertices[i], vertices[i + 1])
         \/ FanHit(ray_origin, ray_dir, vertices, i + 1)

ray_intersects_polygon_3d(start, end, polygon_vertices) ==
    LET ray_origin == <<start.e, start.n, start.h>>
        ray_end == <<end.e, end.n, end.h>>
        ray_dir == Sub(ray_end, ray_origin)
    IN IF Len(polygon_vertices) < 3 THEN FALSE
       ELSE IF Dot(ray_dir, ray_dir) = 0 THEN FALSE   \* ray_length < 0.01
       ELSE FanHit(ray_origin, ray_dir, polygon_vertices, 2)

\* some wall of the building is hit (the loop breaks at the first hit)
BuildingBlocks(start, end, building) ==
    \E w \in 1..Len(building.wall_surfaces) :
        /\ Len(building.wall_surfaces[w]) >= 3
        /\ ray_intersects_polygon_3d(start, end, building.wall_surfaces[w])

\* the wall loop without its break: a building is appended once per wall hit
RECURSIVE BlockingBuildingsPerWall(_, _, _)
BlockingBuildingsPerWall(start, end, blds) ==
    IF blds = <<>> THEN <<>>
    ELSE [w \in 1..Cardinality({w \in 1..Len(Head(blds).wall_surfaces) :
                /\ Len(Head(blds).wall_surfaces[w]) >= 3
                /\ ray_intersects_polygon_3d(start, end, Head(blds).wall_surfaces[w])})
             |-> Head(blds)]
         \o BlockingBuildingsPerWall(start, end, Tail(blds))

RECURSIVE BlockingBuildings(_, _, _)
BlockingBuildings(start, end, blds) ==
    IF blds = <<>> THEN <<>>
    ELSE (IF BuildingBlocks(start, end, Head(blds)) THEN <<Head(blds)>> ELSE <<>>)
         \o BlockingBuildings(start, end, Tail(blds))

RECURSIVE calculate_building_attenuation(_)
calculate_building_attenuation(blds) ==
    IF blds = <<>> THEN 0
    ELSE attenuation_per_building + calculate_building_attenuation(Tail(blds))

\* <<has_los, blocking_buildings, total_attenuation_db>>
check_line_of_sight_3d(start, end, blds) ==
    IF blds = <<>> THEN <<TRUE, <<>>, 0>>
    ELSE IF (end.e - start.e) * (end.e - start.e) + (end.n - start.n) * (end.n - start.n) = 0
    THEN <<TRUE, <<>>, 0>>                       \* total_dist < 0.01
    ELSE LET blocking == BlockingBuildings(start, end, blds)
         IN <<Len(blocking) = 0, blocking, calculate_building_attenuation(blocking)>>

\* buildings_to_check = buildings: the point's own building is checked too
SelectAllBuildings(blds, building_id) == blds

RECURSIVE SelectOthers(_, _)
SelectOthers(blds, building_id) ==
    IF blds = <<>> THEN <<>>
    ELSE (IF Head(blds).id # building_id THEN <<Head(blds)>> ELSE <<>>)
         \o SelectOthers(Tail(blds), building_id)

\* the body of "for result in results_to_check"
LosOfResult(result, antenna_los_pos, blds) ==
    LET result_pos == [e |-> result.x, n |-> result.y, h |-> result.z]
        buildings_to_check == SelectOthers(blds, result.building_id)
        los == check_line_of_sight_3d(antenna_los_pos, result_pos, buildings_to_check)
    IN [result EXCEPT !.los_set = TRUE, !.has_los = los[1],
                      !.num_buildings_blocking = Len(los[2]),
                      !.building_attenuation_db = los[3],
                      !.blocking_building_ids = [k \in 1..Len(los[2]) |-> los[2][k].id]]

\* results_to_check = results: every result is analysed
NeedsLosCheckAll(result) == TRUE

\* results_to_check = [r for r in results if r.exceeds_limit]
NeedsLosCheck(result) == result.exceeds_limit

add_los_info_to_results(rs, antenna_position, blds, mast_height_offset) ==
    LET antenna_los_pos == [e |-> antenna_position.e, n |-> antenna_position.n,
                            h |-> antenna_position.h + mast_height_offset]
    IN [i \in 1..Len(rs) |->
          IF NeedsLosCheck(rs[i]) THEN LosOfResult(rs[i], antenna_los_pos, blds)
          ELSE rs[i]]

(***************************************************************************)
(* main.py: the LOS step of analyze_site                                    *)
(***************************************************************************)
RECURSIVE SeqMaxH(_)
SeqMaxH(ants) ==
    IF Len(ants) = 1 THEN ants[1].position.h
    ELSE LET m == SeqMaxH(Tail(ants))
         IN IF ants[1].position.h >= m THEN ants[1].position.h ELSE m

\* mast_offset of analyze_site
MastOffset(ants, base) == IF ants # <<>> THEN SeqMaxH(ants) - base.h ELSE 3

\* 10000 * 10^(-i/20) for i = 0..19 (index i+1)
FactorTable == <<10000, 8913, 7943, 7079, 6310, 5623, 5012, 4467, 3981, 3548, 3162, 2818, 2512, 2239, 1995, 1778, 1585, 1413, 1259, 1122>>

\* the factor with the sign of the exponent lost: 10 ** (db / 20.0)
ApplyAttenuationFactorAmplifying(e_field_vm, db) ==
    (e_field_vm * 10000 * Pow10(db \div 20)) \div FactorTable[(db % 20) + 1]

\* e_field_vm * 10 ** (-building_attenuation_db / 20.0)
ApplyAttenuationFactor(e_field_vm, db) ==
    IF db \div 20 > 4 THEN 0
    ELSE (e_field_vm * FactorTable[(db % 20) + 1]) \div (10000 * Pow10(db \div 20))

\* a loop body that re-evaluates exceeds_limit of every result
AttenuateResultReevaluatingAll(r, threshold) ==
    IF r.los_set /\ r.building_attenuation_db > 0
    THEN LET e == ApplyAttenuationFactor(r.e_field_vm, r.building_attenuation_db)
         IN [r EXCEPT !.free_set = TRUE, !.e_field_free_vm = r.e_field_vm,
                      !.e_field_vm = e, !.exceeds_limit = (e >= threshold)]
    ELSE [r EXCEPT !.exceeds_limit = (r.e_field_vm >= threshold)]

\* the body of "for r in results" of analyze_site
AttenuateResult(r, threshold) ==
    IF r.los_set /\ r.building_attenuation_db > 0
    THEN LET e == ApplyAttenuationFactor(r.e_field_vm, r.building_attenuation_db)
         IN [r EXCEPT !.free_set = TRUE, !.e_field_free_vm = r.e_field_vm,
                      !.e_field_vm = e, !.exceeds_limit = (e >= threshold)]
    ELSE r

RECURSIVE SelectExceeding(_)
SelectExceeding(rs) ==
    IF rs = <<>> THEN <<>>
    ELSE (IF Head(rs).exceeds_limit THEN <<Head(rs)>> ELSE <<>>)
         \o SelectExceeding(Tail(rs))

\* what export_hotspots_csv writes for the LOS columns of a result
ReportedLos(r) ==
    [los_status |-> IF (IF r.los_set THEN r.has_los ELSE TRUE) THEN "LOS" ELSE "NLOS",
     num_buildings_blocking |-> IF r.los_set THEN r.num_buildings_blocking ELSE 0,
     building_attenuation_db |-> IF r.los_set THEN r.building_attenuation_db ELSE 0]

(***************************************************************************)
(* physics/summation_parallel.py: multiprocessing.Pool.map                  *)
(***************************************************************************)
\* chunksize, extra = divmod(len(iterable), len(pool) * 4); if extra: chunksize += 1
PoolChunkSize(n, workers) ==
    IF n % (workers * 4) = 0 THEN n \div (workers * 4) ELSE n \div (workers * 4) + 1

NumChunks(n, chunksize) == (n + chunksize - 1) \div chunksize

ChunkFirst(c, chunksize) == (c - 1) * chunksize + 1

ChunkLast(c, chunksize, n) == IF c * chunksize < n THEN c * chunksize ELSE n


\* a pool that appends each chunk's results as the chunk completes
PoolSetValueInCompletionOrder(value, c, chunksize, chunk_results) ==
    LET filled == Cardinality({i \in 1..Len(value) : value[i] # <<>>})
    IN [i \in 1..Len(value) |->
          IF filled < i /\ i <= filled + Len(chunk_results)
          THEN <<chunk_results[i - filled]>>
          ELSE value[i]]

\* the pool stores the results of chunk c at the indices of its points
PoolSetValue(value, c, chunksize, chunk_results) ==
    [i \in 1..Len(value) |->
        IF ChunkFirst(c, chunksize) <= i /\ i <= ChunkLast(c, chunksize, Len(value))
        THEN <<chunk_results[i - ChunkFirst(c, chunksize) + 1]>>
        ELSE value[i]]

(***************************************************************************)
(* Inputs: one site (patterns, buildings) and the families of antenna       *)
(* systems and point lists the runs are drawn from                          *)
(***************************************************************************)
MaxAntennas == 4
MaxWorkers == 2

\* the loaded pattern map; angles in half degrees, gains in dB
LoadedPatterns ==
    (<<"AIR3268", "3600">> :>
        [present |-> TRUE,
         h_angles |-> <<0, 60, 120, 180, 360, 540, 600, 660>>,
         h_gains |-> <<0, -3, -10, -20, -30, -20, -10, -3>>,
         v_angles |-> <<0, 4, 10, 20, 60, 180, 360, 540, 660, 700, 710, 716>>,
         v_gains |-> <<0, -1, -3, -10, -20, -30, -30, -30, -20, -10, -3, -1>>])

base_position == [e |-> 0, n |-> 0, h |-> 8]

EqAntenna(id) ==
    [id |-> id, position |-> [e |-> 0, n |-> 0, h |-> 10], azimuth_deg |-> 0,
     tilt_deg |-> 0, tilt_from_deg |-> 0, tilt_to_deg |-> 0, erp_watts |-> 9,
     frequency_band |-> "900", antenna_type |-> "Omni"]

SweepAntenna(id) ==
    [id |-> id, position |-> [e |-> 0, n |-> 0, h |-> 10], azimuth_deg |-> 0,
     tilt_deg |-> -6, tilt_from_deg |-> -10, tilt_to_deg |-> -4, erp_watts |-> 850,
     frequency_band |-> "3600", antenna_type |-> "AIR3268"]

FixedAntenna(id) ==
    [id |-> id, position |-> [e |-> 0, n |-> 0, h |-> 12], azimuth_deg |-> 180,
     tilt_deg |-> -4, tilt_from_deg |-> -4, tilt_to_deg |-> -4, erp_watts |-> 100,
     frequency_band |-> "3600", antenna_type |-> "AIR3268"]

\* the antennas of the site sheet, in sheet order
SiteAntennas ==
    <<EqAntenna(3), EqAntenna(1), EqAntenna(4), EqAntenna(2), SweepAntenna(6), FixedAntenna(5)>>

\* antenna systems: the runs of up to MaxAntennas consecutive sheet columns
AntennaSystems ==
    {<<>>} \cup UNION {{SubSeq(SiteAntennas, i, j) :
                          j \in {k \in i..Len(SiteAntennas) : k - i + 1 <= MaxAntennas}} :
                       i \in 1..Len(SiteAntennas)}

Rect(a, b, c, d) == <<a, b, c, d>>

Buildings ==
    << [id |-> "B1", wall_surfaces |->
            << Rect(<<-3, 7, 0>>, <<3, 7, 0>>, <<3, 7, 12>>, <<-3, 7, 12>>),
               Rect(<<-3, 10, 0>>, <<3, 10, 0>>, <<3, 10, 12>>, <<-3, 10, 12>>) >>],
       [id |-> "B2", wall_surfaces |->
            << Rect(<<-3, 40, 0>>, <<3, 40, 0>>, <<3, 40, 12>>, <<-3, 40, 12>>) >>],
       [id |-> "B3", wall_surfaces |->
            << Rect(<<-5, 14, 0>>, <<5, 14, 0>>, <<5, 14, 20>>, <<-5, 14, 20>>),
               Rect(<<-5, 15, 0>>, <<5, 15, 0>>, <<5, 15, 20>>, <<-5, 15, 20>>) >>],
       [id |-> "B4", wall_surfaces |->
            << Rect(<<20, -3, 0>>, <<20, 3, 0>>, <<20, 3, 8>>, <<20, -3, 8>>) >>],
       \* the building the mast stands on: roof at 8 m, parapet up to 10 m
       [id |-> "B5", wall_surfaces |->
            << Rect(<<-2, -2, 0>>, <<2, -2, 0>>, <<2, -2, 10>>, <<-2, -2, 10>>),
               Rect(<<-2, 2, 0>>, <<2, 2, 0>>, <<2, 2, 10>>, <<-2, 2, 10>>) >>],
       \* a building on the far side of the mast
       [id |-> "B6", wall_surfaces |->
            << Rect(<<-3, -5, 0>>, <<3, -5, 0>>, <<3, -5, 20>>, <<-3, -5, 20>>) >>] >>

FacadePoint(b, x, y, z) == [building_id |-> b, x |-> x, y |-> y, z |-> z]

\* facade points of the site, as the sampler emits them
SitePoints ==
    << FacadePoint("B1", 0, 7, 10), FacadePoint("B1", 0, 10, 10),
       FacadePoint("B2", 0, 40, 7), FacadePoint("B4", 20, 0, 2),
       FacadePoint("B3", 0, 15, 10), FacadePoint("B2", 0, 40, 2) >>

SitePointSet == {SitePoints[i] : i \in 1..Len(SitePoints)}

\* The per-point computation is pure: its value for every antenna system and
\* site point is tabulated once and read by the runs.
FieldTable ==
    [a \in AntennaSystems |->
        [pt \in SitePointSet |-> calculate_total_e_field_at_point(pt, a, LoadedPatterns, 0)]]

\* the call in the loop body of calculate_all_points
SerialPointResult(point, ants) == FieldTable[ants][point]

\* a worker whose partial() lost the pattern dictionary
calculate_point_worker_without_patterns(point, ants) ==
    calculate_total_e_field_at_point(point, ants, <<>>, 0)

\* _calculate_point_worker(point, antenna_system, patterns, 0.0)
calculate_point_worker(point, ants) == FieldTable[ants][point]

\* a point list of length n
PointList(n) == [i \in 1..n |-> SitePoints[((i - 1) % Len(SitePoints)) + 1]]

\* list lengths drawn for a worker count: short lists and the lengths around
\* the driver's fallback limit
PointCounts(workers) == {0, 1, 3, 10 * workers - 1, 10 * workers}

Thresholds == {AGW_LIMIT_VM - 20, AGW_LIMIT_VM, AGW_LIMIT_VM + 20}

\* search radii [m]: the default and one that passes through site points
Radii == {DEFAULT_RADIUS_M \div 10, DEFAULT_RADIUS_M}

(***************************************************************************)
(* geometry/facade_sampling.py: filter_points_by_distance                   *)
(***************************************************************************)
\* dist = np.sqrt(dx**2 + dy**2); dist <= max_distance, on whole metres
WithinDistance(p, center_e, center_n, max_distance) ==
    (p.x - center_e) * (p.x - center_e) + (p.y - center_n) * (p.y - center_n)
        <= max_distance * max_distance

\* a filter that drops the points exactly on the radius
RECURSIVE filter_points_strictly_inside(_, _, _, _)
filter_points_strictly_inside(pts, center_e, center_n, max_distance) ==
    IF pts = <<>> THEN <<>>
    ELSE (IF (Head(pts).x - center_e) * (Head(pts).x - center_e)
               + (Head(pts).y - center_n) * (Head(pts).y - center_n)
               < max_distance * max_distance
          THEN <<Head(pts)>> ELSE <<>>)
         \o filter_points_strictly_inside(Tail(pts), center_e, center_n, max_distance)

RECURSIVE filter_points_by_distance(_, _, _, _)
filter_points_by_distance(pts, center_e, center_n, max_distance) ==
    IF pts = <<>> THEN <<>>
    ELSE (IF WithinDistance(Head(pts), center_e, center_n, max_distance)
          THEN <<Head(pts)>> ELSE <<>>)
         \o filter_points_by_distance(Tail(pts), center_e, center_n, max_distance)

(***************************************************************************)
(* State                                                                    *)
(***************************************************************************)
VARIABLES
    all_points,      \* the sampled FacadePoints before the radius filter
    radius_m,        \* analyze_site(radius_m=...)
    points,          \* the FacadePoints handed to the driver
    antennas,        \* antenna_system.antennas
    threshold_vm,    \* analyze_site(threshold_vm=...)
    n_workers,       \* calculate_all_points_parallel(n_workers=...)
    pc,              \* position of the run
    results,         \* the list of HotspotResult
    pool_next,       \* next chunk the pool hands to a worker (0: no pool)
    pool_busy,       \* worker -> chunk it computes (0: idle)
    pool_value,      \* MapResult._value: <<>> for None, <<r>> for a result
    att_i,           \* index of analyze_site's loop over the results
    hotspots,        \* analyze_site's hotspot list
    stop_requested,  \* the caller has raised its stop signal for the driver
                     \* call in progress (the signal ends with the call)
    smp_pc,          \* position of a sampler call ("off": no call)
    smp_kind,        \* "facade": sample_facade_polygon, "roof": sample_roof_polygon
    smp_surface,     \* the WallSurface argument
    smp_resolution,  \* the resolution argument
    smp_iu, smp_iv,  \* indices of u_val in u_coords and v_val in v_coords
    smp_points,      \* the points list of the sampler
    omen_pc,         \* position of a call of one of the OMEN exports ("off": no call)
    omen_locations,  \* antenna_system.omen_locations
    tolerance_percent, \* export_omen_validation_csv(tolerance_percent=...)
    omen_results,    \* the results argument of the assignment export
    omen_i,          \* index of the export's loop over the OMEN list
    validation_results, \* the rows of export_omen_validation_csv
    omen_to_building,   \* the dictionary of the assignment export
    omen_csv,        \* the rows written to the export's file (<<>>: no file written)
    krn_pc,          \* position of the computation of one contribution ("off": none)
    krn_antenna,     \* the antenna of the loop body in calculate_total_e_field_at_point
    krn_point,       \* point_pos
    krn_angle,       \* a relative angle looked up in the antenna's pattern
    krn_evaluated,   \* the tilts the search has evaluated, in order
    krn_search,      \* min_v_attenuation, critical_tilt, ... of the search
    krn_contribution, \* <<>>, or <<c>> for the AntennaContribution c
    krn_atten        \* <<>>, or the attenuations read at krn_angle and whole turns from it

sampler_vars == <<smp_pc, smp_kind, smp_surface, smp_resolution, smp_iu, smp_iv, smp_points>>

\* the state of the components that are not part of the analyze_site run
omen_vars == <<omen_pc, omen_locations, tolerance_percent, omen_results, omen_i, validation_results, omen_to_building, omen_csv>>

kernel_vars == <<krn_pc, krn_antenna, krn_point, krn_angle, krn_evaluated, krn_search, krn_contribution, krn_atten>>

aside == <<sampler_vars, omen_vars, kernel_vars>>

site_vars == <<all_points, radius_m, points, antennas, threshold_vm, n_workers, pc, results, pool_next, pool_busy, pool_value, att_i, hotspots, stop_requested>>

vars == <<site_vars, aside>>

\* no sampler call
SamplerOff ==
    /\ smp_pc = "off" /\ smp_kind = "facade" /\ smp_surface = [shape |-> "line", vertices |-> <<>>]
    /\ smp_resolution = 10 /\ smp_iu = 0 /\ smp_iv = 0 /\ smp_points = <<>>

\* no OMEN export
OmenOff ==
    /\ omen_pc = "off" /\ omen_locations = <<>> /\ tolerance_percent = 10
    /\ omen_results = <<>> /\ omen_i = 0 /\ validation_results = <<>>
    /\ omen_to_building = <<>> /\ omen_csv = <<>>

\* no contribution is computed on its own
KernelOff ==
    /\ krn_pc = "off" /\ krn_antenna = EqAntenna(1) /\ krn_point = <<0, 0, 0>> /\ krn_angle = 0
    /\ krn_evaluated = <<>> /\ krn_search = TiltSearchInit(EqAntenna(1))
    /\ krn_contribution = <<>> /\ krn_atten = <<>>

inputs == <<all_points, radius_m, points, antennas, threshold_vm, n_workers>>

pool == <<pool_next, pool_busy, pool_value>>

Init ==
    /\ n_workers \in 1..MaxWorkers
    /\ \E n \in PointCounts(n_workers) : all_points = PointList(n)
    /\ radius_m \in Radii
    /\ points = <<>>
    /\ antennas \in AntennaSystems
    /\ threshold_vm \in Thresholds
    /\ pc = "filter"
    /\ results = <<>>
    /\ pool_next = 0
    /\ pool_busy = [w \in 1..n_workers |-> 0]
    /\ pool_value = <<>>
    /\ att_i = 0
    /\ hotspots = <<>>
    /\ stop_requested = FALSE
    /\ SamplerOff
    /\ OmenOff
    /\ KernelOff

(***************************************************************************)
(* analyze_site: radius filter                                              *)
(***************************************************************************)
\* all_points = filter_points_by_distance(all_points, base.e, base.n, radius_m)
FilterPoints ==
    /\ pc = "filter"
    /\ points' = filter_points_by_distance(all_points, base_position.e, base_position.n, radius_m)
    /\ pc' = "start"
    /\ UNCHANGED <<all_points, radius_m, antennas, threshold_vm, n_workers, results, pool, att_i, hotspots, stop_requested, aside>>

(***************************************************************************)
(* calculate_all_points_parallel                                            *)
(***************************************************************************)
\* if not points: return []
ParallelEmpty ==
    /\ pc = "start"
    /\ points = <<>>
    /\ results' = <<>>
    /\ pc' = "computed"
    /\ UNCHANGED <<inputs, pool, att_i, hotspots, stop_requested, aside>>

\* a driver that also computes n_workers * 10 points serially
UsesSerialFallbackAtTen(n, workers) == n <= workers * 10

\* the driver takes the serial path below this number of points
UsesSerialFallback(n, workers) == n < workers * 10

\* if len(points) < n_workers * 10: return calculate_all_points(...)
\* (the serial branch of analyze_site calls the same calculate_all_points)
SerialFallback ==
    /\ pc = "start"
    /\ points # <<>>
    /\ UsesSerialFallback(Len(points), n_workers)
    /\ pc' = "serial"
    /\ UNCHANGED <<inputs, results, pool, att_i, hotspots, stop_requested, aside>>

\* one iteration of calculate_all_points' loop
SerialStep ==
    /\ pc = "serial"
    /\ Len(results) < Len(points)
    /\ results' = Append(results, SerialPointResult(points[Len(results) + 1], antennas))
    /\ pc' = IF Len(results) + 1 = Len(points) THEN "computed" ELSE "serial"
    /\ stop_requested' = (stop_requested /\ Len(results) + 1 < Len(points))
    /\ UNCHANGED <<inputs, pool, att_i, hotspots, aside>>

\* with mp.Pool(processes=n_workers) as pool: pool.map(worker, points)
PoolStart ==
    /\ pc = "start"
    /\ points # <<>>
    /\ ~UsesSerialFallback(Len(points), n_workers)
    /\ pc' = "pool"
    /\ pool_next' = 1
    /\ pool_value' = [i \in 1..Len(points) |-> <<>>]
    /\ UNCHANGED <<inputs, results, pool_busy, att_i, hotspots, stop_requested, aside>>

\* the worker maps _calculate_point_worker over the points of chunk c
ChunkResults(c, chunksize, pts, ants) ==
    [k \in 1..(ChunkLast(c, chunksize, Len(pts)) - ChunkFirst(c, chunksize) + 1) |->
        calculate_point_worker(pts[ChunkFirst(c, chunksize) + k - 1], ants)]

\* an idle worker takes the next chunk from the task queue
WorkerTake(w) ==
    /\ pc = "pool"
    /\ pool_busy[w] = 0
    /\ pool_next <= NumChunks(Len(points), PoolChunkSize(Len(points), n_workers))
    /\ pool_busy' = [pool_busy EXCEPT ![w] = pool_next]
    /\ pool_next' = pool_next + 1
    /\ UNCHANGED <<inputs, pc, results, pool_value, att_i, hotspots, stop_requested, aside>>

\* a worker finishes its chunk and the pool stores the chunk's results
WorkerFinish(w) ==
    /\ pc = "pool"
    /\ pool_busy[w] # 0
    /\ pool_value' = PoolSetValue(pool_value, pool_busy[w], PoolChunkSize(Len(points), n_workers), ChunkResults(pool_busy[w], PoolChunkSize(Len(points), n_workers), points, antennas))
    /\ pool_busy' = [pool_busy EXCEPT ![w] = 0]
    /\ UNCHANGED <<inputs, pc, results, pool_next, att_i, hotspots, stop_requested, aside>>

\* pool.map returns the value list once every chunk is stored
PoolReturn ==
    /\ pc = "pool"
    /\ \A i \in 1..Len(pool_value) : pool_value[i] # <<>>
    /\ results' = [i \in 1..Len(pool_value) |-> pool_value[i][1]]
    /\ pc' = "computed"
    /\ stop_requested' = FALSE
    /\ UNCHANGED <<inputs, pool, att_i, hotspots, aside>>

\* the caller raises its stop signal while the driver computes; the driver
\* has no parameter through which it could read it
RequestStop ==
    /\ pc \in {"serial", "pool"}
    /\ ~stop_requested
    /\ stop_requested' = TRUE
    /\ UNCHANGED <<inputs, pc, results, pool, att_i, hotspots, aside>>

(***************************************************************************)
(* analyze_site: LOS step and hotspot list                                  *)
(***************************************************************************)
\* if results and buildings: add_los_info_to_results(...)
AddLosInfo ==
    /\ pc = "computed"
    /\ results # <<>> /\ Buildings # <<>>
    /\ results' = add_los_info_to_results(results, base_position, Buildings, MastOffset(antennas, base_position))
    /\ att_i' = 1
    /\ pc' = "attenuate"
    /\ UNCHANGED <<inputs, pool, hotspots, stop_requested, aside>>

\* for r in results: apply the building attenuation
AttenuateStep ==
    /\ pc = "attenuate"
    /\ att_i <= Len(results)
    /\ results' = [results EXCEPT ![att_i] = AttenuateResult(results[att_i], threshold_vm)]
    /\ att_i' = att_i + 1
    /\ UNCHANGED <<inputs, pc, pool, hotspots, stop_requested, aside>>

\* hotspots = [r for r in results if r.exceeds_limit]
IdentifyHotspots ==
    /\ \/ pc = "attenuate" /\ att_i > Len(results)
       \/ pc = "computed" /\ ~(results # <<>> /\ Buildings # <<>>)
    /\ hotspots' = SelectExceeding(results)
    /\ pc' = "done"
    /\ UNCHANGED <<inputs, results, pool, att_i, stop_requested, aside>>

Next ==
    \/ FilterPoints
    \/ ParallelEmpty
    \/ SerialFallback
    \/ SerialStep
    \/ PoolStart
    \/ \E w \in 1..n_workers : WorkerTake(w)
    \/ \E w \in 1..n_workers : WorkerFinish(w)
    \/ PoolReturn
    \/ RequestStop
    \/ AddLosInfo
    \/ AttenuateStep
    \/ IdentifyHotspots

Spec == Init /\ [][Next]_vars

(***************************************************************************)
(* geometry/facade_sampling.py: sample_facade_polygon, sample_roof_polygon  *)
(* Sampler lengths are decimetres and unit vectors are given in fifths (the *)
(* vector of length 5 along the direction).  The planes of the surfaces     *)
(* have normals along a coordinate axis or along a 3:4:5 diagonal (0.6 and  *)
(* 0.8 in z); for these the unit normal, the local axes u, v, the local     *)
(* coordinates and the cell centres are whole numbers and every product     *)
(* and quotient below is exact.                                             *)
(***************************************************************************)
\* n / np.linalg.norm(n), in fifths
UnitVector(n) ==
    LET norm == Sqrt(Dot(n, n))
    IN <<(5 * n[1]) \div norm, (5 * n[2]) \div norm, (5 * n[3]) \div norm>>

\* the value None of _calculate_normal
NoNormal == <<>>

calculate_normal(vertices) ==
    IF Len(vertices) < 3 THEN NoNormal
    ELSE LET normal == Cross(Sub(vertices[2], vertices[1]), Sub(vertices[3], vertices[1]))
         IN IF normal = <<0, 0, 0>> THEN NoNormal      \* norm < 1e-10
            ELSE UnitVector(normal)

\* <<u, v>>
create_local_coordinate_system(normal) ==
    LET c == Cross(<<0, 0, 1>>, normal)
        u == IF c = <<0, 0, 0>> THEN <<5, 0, 0>> ELSE UnitVector(c)   \* u_norm < 0.01
    IN <<u, UnitVector(Cross(normal, u))>>

\* [np.dot(vtx - origin, u), np.dot(vtx - origin, v)] for vtx in vertices
LocalCoords(vertices, uv) ==
    [i \in 1..Len(vertices) |->
        <<Dot(Sub(vertices[i], vertices[1]), uv[1]) \div 5,
          Dot(Sub(vertices[i], vertices[1]), uv[2]) \div 5>>]

SeqMin(s) == CHOOSE x \in {s[i] : i \in 1..Len(s)} : \A i \in 1..Len(s) : x <= s[i]

Column(local_coords, c) == [i \in 1..Len(local_coords) |-> local_coords[i][c]]

\* np.arange(start, stop, step)
RECURSIVE Arange(_, _, _)
Arange(start, stop, step) ==
    IF start >= stop THEN <<>> ELSE <<start>> \o Arange(start + step, stop, step)

\* a grid that starts on the edge of the bounding box
GridCoordsFromEdge(lo, hi, resolution) == Arange(lo, hi, resolution)

\* np.arange(min + resolution / 2, max, resolution)
GridCoords(lo, hi, resolution) == Arange(lo + resolution \div 2, hi, resolution)

\* one edge (i, j) of the ray casting loop: TRUE iff "inside" is toggled.
\* The code compares point[0] with (xj - xi) * (point[1] - yi) / (yj - yi + 1e-10) + xi;
\* with d = yj - yi a nonzero integer the 1e-10 only decides the case of equality.
EdgeToggles(point, pi, pj) ==
    /\ (pi[2] > point[2]) # (pj[2] > point[2])
    /\ LET d == pj[2] - pi[2]
           n == (pj[1] - pi[1]) * (point[2] - pi[2])
           lhs == (point[1] - pi[1]) * d
       IN IF d > 0
          THEN lhs < n \/ (lhs = n /\ point[1] - pi[1] < 0)
          ELSE lhs > n \/ (lhs = n /\ point[1] - pi[1] > 0)

RECURSIVE PolygonLoop(_, _, _, _, _)
PolygonLoop(point, polygon, i, j, inside) ==
    IF i > Len(polygon) THEN inside
    ELSE PolygonLoop(point, polygon, i + 1, i,
                     IF EdgeToggles(point, polygon[i], polygon[j]) THEN ~inside ELSE inside)

\* a sampler without the point-in-polygon test
point_in_polygon_always(point, polygon) == TRUE

\* _point_in_polygon(point, polygon): j = n - 1; for i in range(n)
point_in_polygon(point, polygon) ==
    PolygonLoop(point, polygon, 1, Len(polygon), FALSE)

\* world_pt = origin + u_val * u + v_val * v, as a FacadePoint
WorldPoint(origin, uv, u_val, v_val, building_id, normal) ==
    [building_id |-> building_id,
     x |-> origin[1] + (u_val * uv[1][1] + v_val * uv[2][1]) \div 5,
     y |-> origin[2] + (u_val * uv[1][2] + v_val * uv[2][2]) \div 5,
     z |-> origin[3] + (u_val * uv[1][3] + v_val * uv[2][3]) \div 5,
     normal |-> normal]

\* both samplers with the verticality check
SamplerRejectsRoofsToo(kind, vertices) ==
    IF Len(vertices) < 3 THEN TRUE
    ELSE IF calculate_normal(vertices) = NoNormal THEN TRUE
    ELSE 10 * Abs(calculate_normal(vertices)[3]) > 35

\* the sampler returns [] before it builds a grid: fewer than 3 vertices, no
\* normal, or (sample_facade_polygon only) abs(normal[2]) > 0.7
SamplerRejects(kind, vertices) ==
    IF Len(vertices) < 3 THEN TRUE
    ELSE IF calculate_normal(vertices) = NoNormal THEN TRUE
    ELSE kind = "facade" /\ 10 * Abs(calculate_normal(vertices)[3]) > 35

\* the grid of a surface: local polygon, axes and the two coordinate lists
SamplerGrid(vertices, resolution) ==
    LET uv == create_local_coordinate_system(calculate_normal(vertices))
        local_coords == LocalCoords(vertices, uv)
    IN [uv |-> uv, local_coords |-> local_coords,
        u_coords |-> GridCoords(SeqMin(Column(local_coords, 1)),
                                SeqMax(Column(local_coords, 1)), resolution),
        v_coords |-> GridCoords(SeqMin(Column(local_coords, 2)),
                                SeqMax(Column(local_coords, 2)), resolution)]

\* the body of "for v_val in v_coords": the points list after cell (u_val, v_val)
SampleCellInto(sampled_points, vertices, grid, u_val, v_val, building_id) ==
    IF point_in_polygon(<<u_val, v_val>>, grid.local_coords)
    THEN Append(sampled_points,
                WorldPoint(vertices[1], grid.uv, u_val, v_val, building_id,
                           calculate_normal(vertices)))
    ELSE sampled_points

\* "for u_val in u_coords: for v_val in v_coords:" from cell (iu, iv) on
RECURSIVE SampleCells(_, _, _, _, _, _)
SampleCells(sampled_points, vertices, grid, iu, iv, building_id) ==
    IF iu > Len(grid.u_coords) THEN sampled_points
    ELSE IF iv > Len(grid.v_coords)
    THEN SampleCells(sampled_points, vertices, grid, iu + 1, 1, building_id)
    ELSE SampleCells(SampleCellInto(sampled_points, vertices, grid, grid.u_coords[iu],
                                    grid.v_coords[iv], building_id),
                     vertices, grid, iu, iv + 1, building_id)

\* the list sample_roof_polygon returns
sample_roof_polygon(vertices, resolution, building_id) ==
    IF SamplerRejects("roof", vertices) THEN <<>>
    ELSE SampleCells(<<>>, vertices, SamplerGrid(vertices, resolution), 1, 1, building_id)

(***************************************************************************)
(* Sampler inputs: surfaces and resolutions                                 *)
(***************************************************************************)
MaxWallCells == 2

\* 1 m and 2 m grids
Resolutions == {10, 20}

\* the vertex list started at its k-th vertex
Rotated(vertices, k) ==
    [i \in 1..Len(vertices) |-> vertices[((i + k - 2) % Len(vertices)) + 1]]

Reversed(vertices) == [i \in 1..Len(vertices) |-> vertices[Len(vertices) + 1 - i]]

\* corners of a vertical rectangle of width w and height h at corner c, in a
\* plane of constant x (axis = 1) or constant y (axis = 2)
WallCorners(axis, c, w, h) ==
    IF axis = 1
    THEN <<c, <<c[1], c[2] + w, c[3]>>, <<c[1], c[2] + w, c[3] + h>>, <<c[1], c[2], c[3] + h>>>>
    ELSE <<c, <<c[1] + w, c[2], c[3]>>, <<c[1] + w, c[2], c[3] + h>>, <<c[1], c[2], c[3] + h>>>>

Surface(shape, vertices) == [shape |-> shape, vertices |-> vertices]

\* rectangular walls of whole 2 m cells: both axes, both orientations, every
\* start vertex
RectWalls ==
    {Surface("rect", Rotated(IF flip THEN Reversed(WallCorners(axis, <<20, 30, 10>>, 20 * w, 20 * h))
                             ELSE WallCorners(axis, <<20, 30, 10>>, 20 * w, 20 * h), k)) :
        axis \in {1, 2}, flip \in BOOLEAN, k \in 1..4,
        w \in 1..MaxWallCells, h \in 1..MaxWallCells}

\* the 10 m x 3 m wall with normal (1, 0, 0)
ExampleWall == Surface("rect", WallCorners(1, <<0, 0, 0>>, 100, 30))

OtherSurfaces ==
    { \* a gable: right triangle, hypotenuse through cell centres
      Surface("triangle", <<<<0, 0, 0>>, <<0, 40, 0>>, <<0, 0, 40>>>>),
      Surface("triangle", <<<<0, 40, 0>>, <<40, 40, 30>>, <<40, 40, 0>>>>),
      \* an L-shaped wall
      Surface("L", <<<<0, 0, 0>>, <<0, 40, 0>>, <<0, 40, 20>>, <<0, 20, 20>>, <<0, 20, 40>>, <<0, 0, 40>>>>),
      \* a wall with a window notch in its top edge, ring closed by its first vertex
      Surface("notch", <<<<10, 0, 0>>, <<50, 0, 0>>, <<50, 0, 40>>, <<40, 0, 40>>, <<40, 0, 20>>,
                         <<20, 0, 20>>, <<20, 0, 40>>, <<10, 0, 40>>, <<10, 0, 0>>>>),
      \* a rectangle 1.5 m wide: not a whole number of cells
      Surface("ragged", WallCorners(2, <<5, 5, 5>>, 15, 25)),
      \* a flat roof
      Surface("roof", <<<<0, 0, 30>>, <<40, 0, 30>>, <<40, 20, 30>>, <<0, 20, 30>>>>),
      Surface("roof", <<<<0, 0, 30>>, <<0, 20, 30>>, <<40, 20, 30>>>>),
      \* a pitched roof, 2 m x 2 m, normal (0, 0.6, 0.8)
      Surface("pitched", <<<<0, 0, 30>>, <<20, 0, 30>>, <<20, 16, 18>>, <<0, 16, 18>>>>),
      \* a steep surface, 2 m x 2 m, normal (0, 0.8, 0.6), and its other side
      Surface("steep", <<<<0, 0, 30>>, <<20, 0, 30>>, <<20, 12, 14>>, <<0, 12, 14>>>>),
      Surface("steep", <<<<0, 12, 14>>, <<20, 12, 14>>, <<20, 0, 30>>, <<0, 0, 30>>>>),
      \* degenerate surfaces
      Surface("line", <<<<0, 0, 0>>, <<0, 20, 0>>>>),
      Surface("collinear", <<<<0, 0, 0>>, <<0, 20, 0>>, <<0, 40, 0>>, <<0, 40, 20>>, <<0, 0, 20>>>>) }

Surfaces == RectWalls \cup {ExampleWall} \cup OtherSurfaces

(***************************************************************************)
(* A sampler call, one grid cell per step                                   *)
(***************************************************************************)
\* no analyze_site run
SiteOff ==
    /\ all_points = <<>> /\ radius_m = DEFAULT_RADIUS_M /\ points = <<>>
    /\ threshold_vm = AGW_LIMIT_VM /\ n_workers = 1
    /\ pc = "off" /\ results = <<>> /\ pool_next = 0
    /\ pool_busy = [w \in 1..1 |-> 0] /\ pool_value = <<>>
    /\ att_i = 0 /\ hotspots = <<>> /\ stop_requested = FALSE

InitSampler ==
    /\ SiteOff /\ antennas = <<>>
    /\ OmenOff
    /\ KernelOff
    /\ smp_pc = "call"
    /\ smp_kind \in {"facade", "roof"}
    /\ smp_surface \in Surfaces
    /\ smp_resolution \in Resolutions
    /\ smp_iu = 0 /\ smp_iv = 0
    /\ smp_points = <<>>

\* the early returns: "return []"
SampleReject ==
    /\ smp_pc = "call"
    /\ SamplerRejects(smp_kind, smp_surface.vertices)
    /\ smp_pc' = "returned"
    /\ UNCHANGED <<smp_kind, smp_surface, smp_resolution, smp_iu, smp_iv, smp_points, site_vars, omen_vars, kernel_vars>>

\* the grid is built and the loops start
SampleGrid ==
    /\ smp_pc = "call"
    /\ ~SamplerRejects(smp_kind, smp_surface.vertices)
    /\ smp_pc' = "loop"
    /\ smp_iu' = 1 /\ smp_iv' = 1
    /\ UNCHANGED <<smp_kind, smp_surface, smp_resolution, smp_points, site_vars, omen_vars, kernel_vars>>

\* one iteration of "for v_val in v_coords" inside "for u_val in u_coords"
SampleCell ==
    /\ smp_pc = "loop"
    /\ LET grid == SamplerGrid(smp_surface.vertices, smp_resolution)
       IN /\ smp_iu <= Len(grid.u_coords) /\ smp_iv <= Len(grid.v_coords)
          /\ smp_points' = SampleCellInto(smp_points, smp_surface.vertices, grid, grid.u_coords[smp_iu], grid.v_coords[smp_iv], "B1")
          /\ IF smp_iv < Len(grid.v_coords)
             THEN smp_iv' = smp_iv + 1 /\ smp_iu' = smp_iu
             ELSE smp_iv' = 1 /\ smp_iu' = smp_iu + 1
    /\ UNCHANGED <<smp_pc, smp_kind, smp_surface, smp_resolution, site_vars, omen_vars, kernel_vars>>

\* both loops are exhausted: "return points"
SampleReturn ==
    /\ smp_pc = "loop"
    /\ LET grid == SamplerGrid(smp_surface.vertices, smp_resolution)
       IN smp_iu > Len(grid.u_coords) \/ smp_iv > Len(grid.v_coords)
    /\ smp_pc' = "returned"
    /\ UNCHANGED <<smp_kind, smp_surface, smp_resolution, smp_iu, smp_iv, smp_points, site_vars, omen_vars, kernel_vars>>

NextSampler ==
    \/ SampleReject
    \/ SampleGrid
    \/ SampleCell
    \/ SampleReturn

SpecSampler == InitSampler /\ [][NextSampler]_vars

(***************************************************************************)
(* output/csv_export.py: export_omen_validation_csv                         *)
(***************************************************************************)
MaxOmens == 3

\* an Optional[float]: <<>> for None, <<x>> for the value x
NoValue == <<>>

OMENLocation(nr, e, n, h, attenuation, expected) ==
    [nr |-> nr, position |-> [e |-> e, n |-> n, h |-> h],
     building_attenuation_db |-> attenuation, e_field_expected |-> expected]

\* the OMEN columns of the site sheet: lengths in metres, fields in 0.1 V/m
OmenSheet ==
    << OMENLocation(1, 0, 10, 10, 0, <<40>>),
       OMENLocation(2, 0, 15, 10, 0, NoValue),
       OMENLocation(3, 0, 15, 10, 0, <<110>>),
       OMENLocation(4, 0, 15, 10, 0, <<109>>),
       OMENLocation(5, 0, 10, 10, 12, <<50>>),
       OMENLocation(6, 0, 10, 10, 0, <<0>>),
       OMENLocation(7, 0, 10, 10, 12, NoValue),
       OMENLocation(8, 0, 15, 10, 0, <<121>>) >>

\* the runs of up to MaxOmens consecutive entries of a sheet
Runs(sheet) ==
    {<<>>} \cup UNION {{SubSeq(sheet, i, j) : j \in {k \in i..Len(sheet) : k - i + 1 <= MaxOmens}} :
                       i \in 1..Len(sheet)}

\* three antennas without pattern; one antenna with a pattern and a tilt range
OmenAntennaSystems == {SubSeq(SiteAntennas, 1, 3), SubSeq(SiteAntennas, 5, 5)}

HasReference(omen) == omen.e_field_expected # NoValue

\* omen_with_ref = [omen for omen in omen_locations if omen.e_field_expected is not None]
omen_with_ref(omens) == SelectSeq(omens, HasReference)

\* the field computed directly at the OMEN position
OmenCalculated(omen, ants) ==
    calculate_total_e_field_at_point(
        FacadePoint(<<"OMEN", omen.nr>>, omen.position.e, omen.position.n, omen.position.h),
        ants, LoadedPatterns, omen.building_attenuation_db).e_field_vm

\* a validator that reports a deviation of exactly the tolerance
OmenStatusStrict(e_calculated, e_expected, tolerance) ==
    IF e_expected = 0 THEN "DEVIATION"
    ELSE IF Abs(e_calculated - e_expected) * 100 < tolerance * Abs(e_expected)
         THEN "OK" ELSE "DEVIATION"

\* deviation_percent = (deviation_vm / e_expected) * 100;
\* "OK" if abs(deviation_percent) <= tolerance_percent else "DEVIATION".
\* The quotient is a numpy float: with e_expected = 0 it is inf or nan, and
\* the comparison is False.
OmenStatus(e_calculated, e_expected, tolerance) ==
    IF e_expected = 0 THEN "DEVIATION"
    ELSE IF Abs(e_calculated - e_expected) * 100 <= tolerance * Abs(e_expected)
         THEN "OK" ELSE "DEVIATION"

\* the row of one OMEN of omen_with_ref
ValidationRow(omen, ants, tolerance) ==
    [omen_nr |-> omen.nr,
     e_expected_vm |-> omen.e_field_expected[1],
     e_calculated_vm |-> OmenCalculated(omen, ants),
     deviation_vm |-> OmenCalculated(omen, ants) - omen.e_field_expected[1],
     status |-> OmenStatus(OmenCalculated(omen, ants), omen.e_field_expected[1], tolerance)]

(***************************************************************************)
(* output/csv_export.py: export_omen_assignment_validation_csv              *)
(* The assignment compares lengths only; its buildings and OMEN positions   *)
(* are on a half metre lattice, so that height_tolerance = 0.5 m is 1.      *)
(***************************************************************************)
height_tolerance == 1

\* the value None of omen_to_building
NoBuilding == <<>>

\* a building with two parallel walls above the footprint [x0, x1] x [y0, y1]
Block(id, x0, x1, y0, y1, z0, z1) ==
    [id |-> id,
     wall_surfaces |-> << Rect(<<x0, y0, z0>>, <<x1, y0, z0>>, <<x1, y0, z1>>, <<x0, y0, z1>>),
                          Rect(<<x0, y1, z0>>, <<x1, y1, z0>>, <<x1, y1, z1>>, <<x0, y1, z1>>) >>,
     roof_surfaces |-> << Rect(<<x0, y0, z1>>, <<x1, y0, z1>>, <<x1, y1, z1>>, <<x0, y1, z1>>) >>]

\* buildings of the OMEN site: a house, its annex (footprints overlap), a
\* garage below the house, a lone wall, a gabled shed with a triangular floor
\* plan and a building without surfaces
OmenBuildings ==
    << Block("House", 0, 12, 0, 8, 0, 12),
       Block("Annex", 8, 20, 0, 8, 0, 6),
       Block("Garage", 2, 6, 2, 6, -6, 0),
       [id |-> "Wall",
        wall_surfaces |-> << Rect(<<30, 0, 0>>, <<38, 0, 0>>, <<38, 0, 6>>, <<30, 0, 6>>) >>,
        roof_surfaces |-> <<>>],
       [id |-> "Shed",
        wall_surfaces |-> << Rect(<<40, 0, 0>>, <<48, 0, 0>>, <<48, 0, 6>>, <<40, 0, 6>>),
                             Rect(<<40, 0, 0>>, <<40, 8, 0>>, <<40, 8, 6>>, <<40, 0, 6>>) >>,
        roof_surfaces |-> << <<<<40, 0, 6>>, <<48, 0, 6>>, <<40, 8, 6>>>> >>],
       [id |-> "Plot", wall_surfaces |-> <<>>, roof_surfaces |-> <<>>] >>

\* OMEN positions of the site, in sheet order
OmenSites ==
    << OMENLocation(4, 10, 4, 4, 0, NoValue),
       OMENLocation(2, 10, 4, 13, 0, NoValue),
       OMENLocation(7, 4, 4, 0, 0, NoValue),
       OMENLocation(1, 4, 4, -3, 0, NoValue),
       OMENLocation(5, 10, 4, 14, 0, NoValue),
       OMENLocation(3, 42, 2, 7, 0, NoValue),
       OMENLocation(6, 46, 6, 2, 0, NoValue),
       OMENLocation(8, 34, 0, 2, 0, NoValue),
       OMENLocation(9, 12, 4, 2, 0, NoValue),
       OMENLocation(10, 9, 5, 5, 0, NoValue) >>

ResultAt(building_id) == [building_id |-> building_id]

\* result lists: none, and several orders of buildings with results
OmenResultLists ==
    { <<>>,
      <<ResultAt("House"), ResultAt("House"), ResultAt("Annex"), ResultAt("Garage"), ResultAt("Shed")>>,
      <<ResultAt("Annex"), ResultAt("virtual"), ResultAt("House"), ResultAt("Annex"), ResultAt("Plot")>>,
      <<ResultAt("Garage"), ResultAt("Wall"), ResultAt("House")>>,
      <<ResultAt("Shed"), ResultAt("Annex")>> }

\* the keys of by_building, in insertion order
RECURSIVE by_building_keys(_)
by_building_keys(res) ==
    IF res = <<>> THEN <<>>
    ELSE LET keys == by_building_keys(SubSeq(res, 1, Len(res) - 1))
             id == res[Len(res)].building_id
         IN IF \E k \in 1..Len(keys) : keys[k] = id THEN keys ELSE Append(keys, id)

\* buildings_to_check = by_building if by_building else {b.id: [] for b in buildings}
buildings_to_check(res, buildings) ==
    IF by_building_keys(res) # <<>> THEN by_building_keys(res)
    ELSE [k \in 1..Len(buildings) |-> buildings[k].id]

\* building_map.get(building_id): <<>> for None
building_map(buildings, building_id) ==
    IF \E k \in 1..Len(buildings) : buildings[k].id = building_id
    THEN <<buildings[CHOOSE k \in 1..Len(buildings) :
                /\ buildings[k].id = building_id
                /\ \A m \in (k + 1)..Len(buildings) : buildings[m].id # building_id]>>
    ELSE <<>>

\* all_surfaces = building_obj.wall_surfaces + building_obj.roof_surfaces
AllVertices(building) ==
    UNION {{surface[i] : i \in 1..Len(surface)} :
           surface \in {(building.wall_surfaces \o building.roof_surfaces)[k] :
                        k \in 1..(Len(building.wall_surfaces) + Len(building.roof_surfaces))}}

\* (building_min_z - height_tolerance) <= omen.position.h <= (building_max_z + height_tolerance)
HeightGate(omen, building) ==
    LET all_z == {v[3] : v \in AllVertices(building)}
    IN /\ \E z \in all_z : z - height_tolerance <= omen.position.h
       /\ \E z \in all_z : omen.position.h <= z + height_tolerance

all_points_2d(building) == {<<v[1], v[2]>> : v \in AllVertices(building)}

\* c is one of a, b or lies between them
OnHullEdge(c, a, b) ==
    /\ (a[1] <= c[1] /\ c[1] <= b[1]) \/ (b[1] <= c[1] /\ c[1] <= a[1])
    /\ (a[2] <= c[2] /\ c[2] <= b[2]) \/ (b[2] <= c[2] /\ c[2] <= a[2])

\* ConvexHull(points_list): the edges of the hull of three or more points
\* that are not all on one line
HullEdges(pts) ==
    {e \in pts \X pts :
        /\ e[1] # e[2]
        /\ \A c \in pts :
            LET side == (e[2][1] - e[1][1]) * (c[2] - e[1][2]) - (e[2][2] - e[1][2]) * (c[1] - e[1][1])
            IN side > 0 \/ (side = 0 /\ OnHullEdge(c, e[1], e[2]))}

\* one edge (p1, p2) of point_in_polygon_2d: TRUE iff "inside" is toggled
EdgeToggles2d(x, y, p1, p2) ==
    /\ y > (IF p1[2] < p2[2] THEN p1[2] ELSE p2[2])
    /\ y <= (IF p1[2] < p2[2] THEN p2[2] ELSE p1[2])
    /\ x <= (IF p1[1] < p2[1] THEN p2[1] ELSE p1[1])
    /\ \/ p1[1] = p2[1]
       \/ IF p2[2] > p1[2]
          THEN (x - p1[1]) * (p2[2] - p1[2]) <= (y - p1[2]) * (p2[1] - p1[1])
          ELSE (x - p1[1]) * (p2[2] - p1[2]) >= (y - p1[2]) * (p2[1] - p1[1])

\* point_in_polygon_2d(x, y, hull_points)
point_in_polygon_2d(x, y, hull_edges) ==
    Cardinality({e \in hull_edges : EdgeToggles2d(x, y, e[1], e[2])}) % 2 = 1

\* the body of "for building_id in buildings_to_check.keys()" up to the
\* point-in-polygon test: FALSE where the code continues with the next id
BuildingMatches(omen, building_id, buildings) ==
    IF building_map(buildings, building_id) = <<>> THEN FALSE
    ELSE LET building_obj == building_map(buildings, building_id)[1]
         IN IF AllVertices(building_obj) = {} THEN FALSE
            ELSE IF ~HeightGate(omen, building_obj) THEN FALSE
            ELSE IF Cardinality(all_points_2d(building_obj)) < 3 THEN FALSE
            ELSE point_in_polygon_2d(omen.position.e, omen.position.n,
                                     HullEdges(all_points_2d(building_obj)))

\* an inner loop without its break: the last matching building is kept
RECURSIVE AssignWithoutBreak(_, _, _, _)
AssignWithoutBreak(omen, ids, buildings, k) ==
    IF k > Len(ids) THEN NoBuilding
    ELSE IF AssignWithoutBreak(omen, ids, buildings, k + 1) # NoBuilding
         THEN AssignWithoutBreak(omen, ids, buildings, k + 1)
         ELSE IF BuildingMatches(omen, ids[k], buildings) THEN <<ids[k]>> ELSE NoBuilding

\* the inner loop from the k-th id on: the id at which it breaks, or None
RECURSIVE AssignFrom(_, _, _, _)
AssignFrom(omen, ids, buildings, k) ==
    IF k > Len(ids) THEN NoBuilding
    ELSE IF BuildingMatches(omen, ids[k], buildings) THEN <<ids[k]>>
         ELSE AssignFrom(omen, ids, buildings, k + 1)

\* omen_to_building[key] = value
SetItem(dict, key, value) ==
    [k \in DOMAIN dict \cup {key} |-> IF k = key THEN value ELSE dict[k]]

\* sorted(omen_locations, key=lambda o: o.nr), for distinct numbers
RECURSIVE SortedByNr(_)
SortedByNr(omens) ==
    IF omens = <<>> THEN <<>>
    ELSE LET m == CHOOSE i \in 1..Len(omens) : \A j \in 1..Len(omens) : omens[i].nr <= omens[j].nr
         IN <<omens[m]>> \o SortedByNr(SubSeq(omens, 1, m - 1) \o SubSeq(omens, m + 1, Len(omens)))

\* the row of one OMEN in the assignment file
AssignmentRow(omen, dict) ==
    [omen_nr |-> omen.nr,
     zugeordnet |-> IF dict[omen.nr] # NoBuilding THEN "Ja" ELSE "Nein",
     building_id |-> dict[omen.nr]]

(***************************************************************************)
(* A call of one of the two OMEN exports                                    *)
(***************************************************************************)
InitOmen ==
    /\ SiteOff /\ antennas \in OmenAntennaSystems
    /\ SamplerOff
    /\ KernelOff
    /\ \/ /\ omen_pc = "validate"
          /\ omen_locations \in Runs(OmenSheet)
          /\ tolerance_percent \in {5, 10}
          /\ omen_results = <<>>
       \/ /\ omen_pc = "assign"
          /\ omen_locations \in Runs(OmenSites)
          /\ tolerance_percent = 10
          /\ omen_results \in OmenResultLists
    /\ omen_i = 0
    /\ validation_results = <<>>
    /\ omen_to_building = <<>>
    /\ omen_csv = <<>>

\* if not antenna_system.omen_locations: return
ValidationNoLocations ==
    /\ omen_pc = "validate"
    /\ omen_locations = <<>>
    /\ omen_pc' = "returned"
    /\ UNCHANGED <<omen_locations, tolerance_percent, omen_results, omen_i, validation_results, omen_to_building, omen_csv, site_vars, sampler_vars, kernel_vars>>

\* if not omen_with_ref: return
ValidationNoReference ==
    /\ omen_pc = "validate"
    /\ omen_locations # <<>>
    /\ omen_with_ref(omen_locations) = <<>>
    /\ omen_pc' = "returned"
    /\ UNCHANGED <<omen_locations, tolerance_percent, omen_results, omen_i, validation_results, omen_to_building, omen_csv, site_vars, sampler_vars, kernel_vars>>

\* one iteration of "for omen in omen_with_ref"
ValidationStep ==
    /\ omen_pc = "validate"
    /\ omen_i < Len(omen_with_ref(omen_locations))
    /\ validation_results' = Append(validation_results, ValidationRow(omen_with_ref(omen_locations)[omen_i + 1], antennas, tolerance_percent))
    /\ omen_i' = omen_i + 1
    /\ UNCHANGED <<omen_pc, omen_locations, tolerance_percent, omen_results, omen_to_building, omen_csv, site_vars, sampler_vars, kernel_vars>>

\* writer.writerows(validation_results)
ValidationWrite ==
    /\ omen_pc = "validate"
    /\ omen_with_ref(omen_locations) # <<>>
    /\ omen_i = Len(omen_with_ref(omen_locations))
    /\ omen_csv' = validation_results
    /\ omen_pc' = "returned"
    /\ UNCHANGED <<omen_locations, tolerance_percent, omen_results, omen_i, validation_results, omen_to_building, site_vars, sampler_vars, kernel_vars>>

\* if not antenna_system or not antenna_system.omen_locations: return
AssignmentNoLocations ==
    /\ omen_pc = "assign"
    /\ omen_locations = <<>>
    /\ omen_pc' = "returned"
    /\ UNCHANGED <<omen_locations, tolerance_percent, omen_results, omen_i, validation_results, omen_to_building, omen_csv, site_vars, sampler_vars, kernel_vars>>

\* one iteration of "for omen in antenna_system.omen_locations"
AssignmentStep ==
    /\ omen_pc = "assign"
    /\ omen_i < Len(omen_locations)
    /\ omen_to_building' = SetItem(omen_to_building, omen_locations[omen_i + 1].nr, AssignFrom(omen_locations[omen_i + 1], buildings_to_check(omen_results, OmenBuildings), OmenBuildings, 1))
    /\ omen_i' = omen_i + 1
    /\ UNCHANGED <<omen_pc, omen_locations, tolerance_percent, omen_results, validation_results, omen_csv, site_vars, sampler_vars, kernel_vars>>

\* the rows, sorted by OMEN number, are written
AssignmentWrite ==
    /\ omen_pc = "assign"
    /\ omen_locations # <<>>
    /\ omen_i = Len(omen_locations)
    /\ omen_csv' = [k \in 1..Len(omen_locations) |-> AssignmentRow(SortedByNr(omen_locations)[k], omen_to_building)]
    /\ omen_pc' = "returned"
    /\ UNCHANGED <<omen_locations, tolerance_percent, omen_results, omen_i, validation_results, omen_to_building, site_vars, sampler_vars, kernel_vars>>

NextOmen ==
    \/ ValidationNoLocations
    \/ ValidationNoReference
    \/ ValidationStep
    \/ ValidationWrite
    \/ AssignmentNoLocations
    \/ AssignmentStep
    \/ AssignmentWrite

SpecOmen == InitOmen /\ [][NextOmen]_vars

(***************************************************************************)
(* The contribution of one antenna at one point, one tilt per step, and the *)
(* pattern lookups of models.py                                             *)
(***************************************************************************)
\* the pattern map of a site whose sheet has a second band, tabulated from
\* -180 to 180 degrees
KernelPatterns ==
    LoadedPatterns @@
    (<<"AIR3268", "1800">> :>
        [present |-> TRUE,
         h_angles |-> <<-360, -120, 0, 120, 360>>,
         h_gains |-> <<-25, -10, 0, -10, -25>>,
         v_angles |-> <<-180, -14, 0, 14, 180>>,
         v_gains |-> <<-30, -3, 0, -3, -30>>])

\* antennas: the site's three kinds, a band given from -180 to 180, a type
\* and band without entry in the pattern map, tilt ranges with limits of
\* -5.5 to -2.5 and -2.5 to -2 degrees, and tilt ranges entered with the
\* limits exchanged (from -2 to -5 degrees), with and without a pattern
KernelAntennas ==
    { EqAntenna(1), SweepAntenna(6), FixedAntenna(5),
      [SweepAntenna(7) EXCEPT !.frequency_band = "1800"],
      [SweepAntenna(8) EXCEPT !.frequency_band = "700"],
      [SweepAntenna(9) EXCEPT !.tilt_from_deg = -11, !.tilt_to_deg = -5, !.tilt_deg = -8],
      [SweepAntenna(10) EXCEPT !.tilt_from_deg = -5, !.tilt_to_deg = -4, !.tilt_deg = -4],
      [SweepAntenna(11) EXCEPT !.tilt_from_deg = -4, !.tilt_to_deg = -10, !.tilt_deg = -6],
      [SweepAntenna(12) EXCEPT !.tilt_from_deg = -4, !.tilt_to_deg = -10, !.tilt_deg = -6,
                               !.frequency_band = "700"] }

\* relative angles in half degrees, among them -70 and 290 degrees
KernelAngles == {-720, -541, -360, -140, -1, 0, 1, 7, 120, 359, 360, 580}

\* whole turns added to an angle
MaxTurns == 1

InitKernel ==
    /\ SiteOff /\ antennas = <<>>
    /\ SamplerOff
    /\ OmenOff
    /\ krn_pc = "sweep"
    /\ krn_antenna \in KernelAntennas
    /\ krn_point \in {<<pt.x, pt.y, pt.z>> : pt \in SitePointSet}
    /\ krn_angle \in KernelAngles
    /\ krn_evaluated = <<>>
    /\ krn_search = TiltSearchInit(krn_antenna)
    /\ krn_contribution = <<>>
    /\ krn_atten = <<>>

\* pattern = get_pattern_for_antenna(patterns, antenna.antenna_type, antenna.frequency_band)
KernelPattern(antenna) ==
    get_pattern_for_antenna(KernelPatterns, antenna.antenna_type, antenna.frequency_band)

\* one iteration of "for tilt in tilt_range"
KernelTilt ==
    /\ krn_pc = "sweep"
    /\ Len(krn_evaluated) < Len(tilt_range(krn_antenna))
    /\ krn_search' = TiltSearchStep(krn_search, KernelPattern(krn_antenna), krn_antenna, krn_point, tilt_range(krn_antenna)[Len(krn_evaluated) + 1])
    /\ krn_evaluated' = Append(krn_evaluated, tilt_range(krn_antenna)[Len(krn_evaluated) + 1])
    /\ UNCHANGED <<krn_pc, krn_antenna, krn_point, krn_angle, krn_contribution, krn_atten, site_vars, sampler_vars, omen_vars>>

\* after the loop: h and v attenuation, E field and the AntennaContribution
KernelContribution ==
    /\ krn_pc = "sweep"
    /\ Len(krn_evaluated) = Len(tilt_range(krn_antenna))
    /\ krn_contribution' = <<ContributionWith(krn_antenna, KernelPattern(krn_antenna), krn_search, 0)>>
    /\ krn_pc' = "lookup"
    /\ UNCHANGED <<krn_antenna, krn_point, krn_angle, krn_evaluated, krn_search, krn_atten, site_vars, sampler_vars, omen_vars>>

\* pattern.get_h_attenuation and pattern.get_v_attenuation at an angle and at
\* whole turns from it
KernelAttenuation ==
    /\ krn_pc = "lookup"
    /\ KernelPattern(krn_antenna).present
    /\ krn_atten' = [k \in (-MaxTurns)..MaxTurns |->
                        [h |-> get_h_attenuation(KernelPattern(krn_antenna), krn_angle + 720 * k),
                         v |-> get_v_attenuation(KernelPattern(krn_antenna), krn_angle + 720 * k)]]
    /\ krn_pc' = "done"
    /\ UNCHANGED <<krn_antenna, krn_point, krn_angle, krn_evaluated, krn_search, krn_contribution, site_vars, sampler_vars, omen_vars>>

\* "if pattern: ... else: 0.0": without pattern nothing is looked up
KernelNoPattern ==
    /\ krn_pc = "lookup"
    /\ ~KernelPattern(krn_antenna).present
    /\ krn_pc' = "done"
    /\ UNCHANGED <<krn_antenna, krn_point, krn_angle, krn_evaluated, krn_search, krn_contribution, krn_atten, site_vars, sampler_vars, omen_vars>>

NextKernel ==
    \/ KernelTilt
    \/ KernelContribution
    \/ KernelAttenuation
    \/ KernelNoPattern

SpecKernel == InitKernel /\ [][NextKernel]_vars

(***************************************************************************)
(* Properties                                                               *)
(***************************************************************************)
SamePoint(r, point) ==
    /\ r.building_id = point.building_id
    /\ r.x = point.x /\ r.y = point.y /\ r.z = point.z

\* C1: calculate_all_points_parallel returns exactly one HotspotResult per
\* input point, and result i was computed from point i (same building_id, x,
\* y, z), whichever worker computes which chunk and in whatever order the
\* workers finish; while the pool runs, every value it has stored at index i
\* already belongs to point i.
C1_OutputOrderIsInputOrder ==
    /\ pc = "pool" =>
          /\ Len(pool_value) = Len(points)
          /\ \A i \in 1..Len(pool_value) :
                pool_value[i] # <<>> => SamePoint(pool_value[i][1], points[i])
    /\ pc = "computed" =>
          /\ Len(results) = Len(points)
          /\ \A i \in 1..Len(results) : SamePoint(results[i], points[i])

\* C1 witness: the pool has stored every chunk but the first, which a worker
\* still computes: the workers finished out of input order.
C1_ChunksFinishedOutOfOrder ==
    /\ pc = "pool"
    /\ n_workers > 1
    /\ \E w \in 1..n_workers : pool_busy[w] = 1
    /\ pool_value[1] = <<>>
    /\ \A i \in 1..Len(pool_value) :
          i > PoolChunkSize(Len(points), n_workers) => pool_value[i] # <<>>
    /\ \E i \in 1..Len(points) : ~SamePoint(points[1], points[i])

\* C2: for the same points, antenna system, patterns and building
\* attenuation the driver returns the list the serial calculate_all_points
\* returns (same e_field_vm, exceeds_limit and contributions at every index),
\* for every worker count, on the pool path and on the serial fallback path;
\* the returned list is a function of the inputs alone, so two runs agree.
C2_ParallelEqualsSerial ==
    pc = "computed" => results = calculate_all_points(points, antennas, LoadedPatterns, 0)

\* C2 witness: the pool path has returned a list with results above and
\* below the limit, computed with a pattern-carrying antenna.
C2_PoolPathReturned ==
    /\ pc = "computed"
    /\ pool_next > 1
    /\ ~UsesSerialFallback(Len(points), n_workers)
    /\ \E i \in 1..Len(results) : results[i].exceeds_limit
    /\ \E i \in 1..Len(results) : ~results[i].exceeds_limit
    /\ \E k \in 1..Len(antennas) :
          get_pattern_for_antenna(LoadedPatterns, antennas[k].antenna_type,
                                  antennas[k].frequency_band).present

\* C3: once the caller has raised its stop signal the driver starts no
\* further point (the serial loop records no further result, the pool hands
\* out no further chunk), and when it returns it returns no results (the
\* partial results are discarded).
C3_StopAbortsOutstandingWork ==
    [][stop_requested =>
          /\ pool_next' = pool_next
          /\ (pc = "serial" => Len(results') <= Len(results))
          /\ (pc' = "computed" => results' = <<>>)]_vars

\* C4: for every threshold configured through threshold_vm, each
\* HotspotResult the point aggregator produces has
\* exceeds_limit = (e_field_vm >= threshold_vm), equality counting as exceeding.
C4_ExceedsLimitUsesThreshold ==
    pc = "computed" =>
        \A i \in 1..Len(results) :
            results[i].exceeds_limit = (results[i].e_field_vm >= threshold_vm)

\* C5: when analyze_site has finished its LOS step, every result satisfies
\* exceeds_limit <=> (final e_field_vm >= threshold_vm), for every configured
\* threshold and every combination of blocked and unblocked points, and the
\* hotspot list holds exactly the results whose final field reaches the
\* threshold.
C5_FinalExceedsLimitAgreesWithThreshold ==
    pc = "done" =>
        /\ \A i \in 1..Len(results) :
              results[i].exceeds_limit <=> (results[i].e_field_vm >= threshold_vm)
        /\ \A i \in 1..Len(results) :
              (results[i].e_field_vm >= threshold_vm)
                  <=> (\E h \in 1..Len(hotspots) : hotspots[h] = results[i])

\* C6: the total field of every result is the power sum of its
\* contributions, E_total^2 = sum of E_i^2 (E_total rounded down to 0.1 V/m:
\* E_total^2 <= sum < (E_total + 1)^2), never their linear sum; two
\* contributions of 3 V/m stay below the 5 V/m limit and four reach it.
C6_TotalIsPowerSum ==
    pc = "computed" =>
        \A i \in 1..Len(results) :
            LET es == EValues(results[i].contributions)
                e == results[i].e_field_vm
            IN /\ e * e <= SumSquares(es)
               /\ SumSquares(es) < (e + 1) * (e + 1)
               /\ (Len(es) = 2 /\ es[1] = 30 /\ es[2] = 30) => ~results[i].exceeds_limit
               /\ (Len(es) = 4 /\ \A k \in 1..4 : es[k] = 30) => results[i].exceeds_limit

\* C6 witness: a result with exactly two contributions of 3 V/m each, whose
\* total of 4.2 V/m does not exceed the limit.
C6_TwoEqualContributions ==
    /\ pc = "computed"
    /\ \E i \in 1..Len(results) :
          /\ Len(results[i].contributions) = 2
          /\ results[i].contributions[1].e_field_vm = 30
          /\ results[i].contributions[2].e_field_vm = 30
          /\ results[i].e_field_vm = 42
          /\ ~results[i].exceeds_limit

\* the antenna list without its k-th antenna
RemoveAt(ants, k) == SubSeq(ants, 1, k - 1) \o SubSeq(ants, k + 1, Len(ants))

\* e_field_vm of calculate_total_e_field_at_point for every site point and
\* every antenna system with one antenna removed
FieldWithoutAntenna ==
    [a \in AntennaSystems |->
        [k \in 1..Len(a) |->
            [pt \in SitePointSet |->
                calculate_total_e_field_at_point(pt, RemoveAt(a, k), LoadedPatterns, 0).e_field_vm]]]

\* C7: for every point and every antenna system, removing any one antenna
\* from the system never increases the e_field_vm that
\* calculate_total_e_field_at_point computes for the point.
C7_RemovingAnAntennaNeverIncreasesField ==
    pc = "computed" =>
        \A i \in 1..Len(results) : \A k \in 1..Len(antennas) :
            FieldWithoutAntenna[antennas][k][points[i]] <= results[i].e_field_vm

\* C7 witness: a system of unequal antennas where removing the weaker one
\* lowers the total of some point and removing the stronger lowers it more.
C7_RemovalLowersField ==
    /\ pc = "computed"
    /\ \E i \in 1..Len(results) : \E k, m \in 1..Len(antennas) :
          /\ results[i].contributions[k].e_field_vm < results[i].contributions[m].e_field_vm
          /\ FieldWithoutAntenna[antennas][m][points[i]] < FieldWithoutAntenna[antennas][k][points[i]]
          /\ FieldWithoutAntenna[antennas][k][points[i]] < results[i].e_field_vm

PatternOf(antenna) ==
    get_pattern_for_antenna(LoadedPatterns, antenna.antenna_type, antenna.frequency_band)

\* the antenna has tilt_from < tilt_to and its pattern is present
IsSwept(antenna) ==
    /\ antenna.tilt_from_deg < antenna.tilt_to_deg
    /\ PatternOf(antenna).present

\* the tilt set sampled for the antenna: every whole degree from
\* int(tilt_from) to int(tilt_to), or the nominal tilt alone when the two agree
SweptTilts(antenna) ==
    IF IntDeg(antenna.tilt_from_deg) = IntDeg(antenna.tilt_to_deg)
    THEN {antenna.tilt_deg}
    ELSE {2 * t : t \in IntDeg(antenna.tilt_from_deg)..IntDeg(antenna.tilt_to_deg)}

SweptAntennas == {SiteAntennas[k] : k \in {j \in 1..Len(SiteAntennas) : IsSwept(SiteAntennas[j])}}

\* v attenuation and field of a swept antenna at a site point, for every tilt
\* of its swept set taken on its own
FieldAtTilt ==
    [a \in SweptAntennas |->
        [pt \in SitePointSet |->
            [t \in SweptTilts(a) |->
                LET ang == calculate_relative_angles(a.position, <<pt.x, pt.y, pt.z>>, a.azimuth_deg, t)
                    v == get_v_attenuation(PatternOf(a), ang[3])
                    h == get_h_attenuation(PatternOf(a), ang[2])
                IN [v_atten |-> v,
                    e_field_vm |-> calculate_e_field_with_pattern(a.erp_watts, ang[1], h, v, 0)]]]]

\* C8: for every antenna with tilt_from < tilt_to whose pattern is present,
\* the contribution's critical_tilt_deg is a tilt of the swept set, its
\* v_attenuation_db is the v attenuation at that tilt and the minimum of the
\* v attenuation over all tilts of the set, and no tilt of the set yields a
\* stronger field than the contribution's e_field_vm.
C8_WorstCaseTilt ==
    pc = "computed" =>
        \A i \in 1..Len(results) : \A k \in 1..Len(antennas) :
            IsSwept(antennas[k]) =>
                LET c == results[i].contributions[k]
                    at == FieldAtTilt[antennas[k]][points[i]]
                IN /\ c.critical_tilt_deg \in SweptTilts(antennas[k])
                   /\ c.v_attenuation_db = at[c.critical_tilt_deg].v_atten
                   /\ \A t \in SweptTilts(antennas[k]) :
                         /\ c.v_attenuation_db <= at[t].v_atten
                         /\ at[t].e_field_vm <= c.e_field_vm

\* C8 witness: a swept antenna whose critical tilt at some point is neither
\* the nominal tilt nor the first tilt of the sweep, with a strictly weaker
\* field at another tilt of the set; at another point the last tilt of the
\* sweep is the critical one.
C8_CriticalTiltInsideSweep ==
    /\ pc = "computed"
    /\ \E i, j \in 1..Len(results) : \E k \in 1..Len(antennas) :
          /\ IsSwept(antennas[k])
          /\ results[i].contributions[k].critical_tilt_deg # antennas[k].tilt_deg
          /\ results[i].contributions[k].critical_tilt_deg # 2 * IntDeg(antennas[k].tilt_from_deg)
          /\ results[i].contributions[k].critical_tilt_deg # 2 * IntDeg(antennas[k].tilt_to_deg)
          /\ \E t \in SweptTilts(antennas[k]) :
                FieldAtTilt[antennas[k]][points[i]][t].e_field_vm
                    < results[i].contributions[k].e_field_vm
          /\ results[j].contributions[k].critical_tilt_deg = 2 * IntDeg(antennas[k].tilt_to_deg)

\* C9: for every point, the result's contributions list has exactly one
\* entry per antenna of the antenna system, in the input order of the
\* antennas: contributions[k].antenna_id = antennas[k].id for every k.
C9_ContributionsInAntennaOrder ==
    pc = "computed" =>
        \A i \in 1..Len(results) :
            /\ Len(results[i].contributions) = Len(antennas)
            /\ \A k \in 1..Len(antennas) :
                  results[i].contributions[k].antenna_id = antennas[k].id

\* C9 witness: results for a system of at least three antennas whose ids are
\* not in ascending order.
C9_UnsortedAntennaIds ==
    /\ pc = "computed"
    /\ results # <<>>
    /\ Len(antennas) >= 3
    /\ antennas[1].id > antennas[2].id
    /\ antennas[2].id < antennas[3].id
    /\ Len(results[1].contributions) = Len(antennas)

\* the LOS columns written for a result without LOS attributes
DefaultLosReport ==
    [los_status |-> "LOS", num_buildings_blocking |-> 0, building_attenuation_db |-> 0]

\* C10: the LOS pass analyses exactly the results whose exceeds_limit is true
\* before the pass; every other result keeps the e_field_vm and exceeds_limit
\* it had before the pass, during the pass and after it, and is reported with
\* the defaults (LOS, 0 blocking buildings, 0 dB attenuation).
C10_LosPassOnlyTouchesExceedingResults ==
    pc \in {"attenuate", "done"} =>
        \A i \in 1..Len(results) :
            LET before == calculate_point_worker(points[i], antennas)
            IN /\ results[i].los_set => before.exceeds_limit
               /\ (before.exceeds_limit /\ Buildings # <<>>) => results[i].los_set
               /\ ~before.exceeds_limit =>
                     /\ results[i].e_field_vm = before.e_field_vm
                     /\ results[i].exceeds_limit = before.exceeds_limit
                     /\ ~results[i].free_set
                     /\ ReportedLos(results[i]) = DefaultLosReport

\* C10 witness: the pass has finished; it found an analysed result blocked,
\* and left alone a result below the limit whose point lies behind a
\* building of the site (the point of building B2, behind B1 and B3).
C10_BlockedPointBelowLimitLeftAlone ==
    /\ pc = "done"
    /\ \E j \in 1..Len(results) :
          results[j].los_set /\ ~results[j].has_los /\ results[j].free_set
    /\ \E i \in 1..Len(results) :
          /\ results[i].building_id = "B2"
          /\ ~results[i].exceeds_limit
          /\ ~results[i].los_set
          /\ results[i].e_field_vm > 0

\* the position the LOS pass takes for the antenna
AntennaLosPos(ants) ==
    [e |-> base_position.e, n |-> base_position.n,
     h |-> base_position.h + MastOffset(ants, base_position)]

\* the buildings other than the result's own of which the segment from the
\* antenna to the result's point meets some wall
HitBuildings(r, ants, blds) ==
    {b \in 1..Len(blds) :
        /\ blds[b].id # r.building_id
        /\ \E w \in 1..Len(blds[b].wall_surfaces) :
              ray_intersects_polygon_3d(AntennaLosPos(ants),
                  [e |-> r.x, n |-> r.y, h |-> r.z], blds[b].wall_surfaces[w])}

\* walls of building b met by the segment
HitWalls(r, ants, b) ==
    {w \in 1..Len(Buildings[b].wall_surfaces) :
        ray_intersects_polygon_3d(AntennaLosPos(ants),
            [e |-> r.x, n |-> r.y, h |-> r.z], Buildings[b].wall_surfaces[w])}

\* 100000 * 10^(-12k/20) for k = 1..3
TwelveDbFactors == <<25119, 6310, 1585>>

\* C11: for an analysed point whose antenna-to-point segment hits walls of k
\* distinct other buildings, each building counts once however many of its
\* walls are hit: building_attenuation_db = 12*k, num_buildings_blocking = k
\* and has_los = (k = 0); for k > 0 the pre-LOS field is saved as the free
\* field and e_field_vm is e_free * 10^(-12k/20) (rounded down to 0.1 V/m),
\* which for one blocker on a field below 19.9 V/m is below the 5 V/m limit.
C11_EachBlockingBuildingCountsOnce ==
    pc = "done" =>
        \A i \in 1..Len(results) :
            results[i].los_set =>
                LET r == results[i]
                    k == Cardinality(HitBuildings(r, antennas, Buildings))
                    e_free == calculate_point_worker(points[i], antennas).e_field_vm
                IN /\ r.building_attenuation_db = 12 * k
                   /\ r.num_buildings_blocking = k
                   /\ r.has_los = (k = 0)
                   /\ k = 0 => (~r.free_set /\ r.e_field_vm = e_free)
                   /\ k > 0 =>
                         /\ r.free_set /\ r.e_field_free_vm = e_free
                         /\ k <= 3 =>
                               /\ 100000 * r.e_field_vm <= e_free * TwelveDbFactors[k]
                               /\ e_free * TwelveDbFactors[k] < 100000 * (r.e_field_vm + 1)
                         /\ (k = 1 /\ e_free < 199) => r.e_field_vm < AGW_LIMIT_VM
                         /\ r.exceeds_limit = (r.e_field_vm >= threshold_vm)

\* C11 witness: one analysed result is blocked by a single building of which
\* the segment crosses two walls (12 dB), another by two buildings (24 dB),
\* and a third has free sight.
C11_TwoWallsOfOneBuildingHit ==
    /\ pc = "done"
    /\ \E i, j, m \in 1..Len(results) :
          /\ results[i].los_set /\ results[i].building_attenuation_db = 12
          /\ \E b \in HitBuildings(results[i], antennas, Buildings) :
                Cardinality(HitWalls(results[i], antennas, b)) = 2
          /\ results[i].e_field_free_vm = 121 /\ results[i].e_field_vm = 30
          /\ results[j].los_set /\ results[j].building_attenuation_db = 24
          /\ results[m].los_set /\ results[m].has_los

\* the outcome of the LOS step for every antenna system and site point when
\* building b is missing from the building list
LosWithoutBuilding ==
    [a \in AntennaSystems |->
        [pt \in SitePointSet |->
            [b \in 1..Len(Buildings) |->
                AttenuateResult(
                    LosOfResult(FieldTable[a][pt], AntennaLosPos(a), RemoveAt(Buildings, b)),
                    AGW_LIMIT_VM)]]]

\* C12: for every analysed point, adding one more building to the building
\* list (here: the b-th building of the site to the list of the others)
\* never decreases the point's building_attenuation_db and never increases
\* its e_field_vm after the LOS step.
C12_AddingABuildingNeverRaisesField ==
    pc = "done" =>
        \A i \in 1..Len(results) : \A b \in 1..Len(Buildings) :
            results[i].los_set =>
                /\ LosWithoutBuilding[antennas][points[i]][b].building_attenuation_db
                      <= results[i].building_attenuation_db
                /\ results[i].e_field_vm
                      <= LosWithoutBuilding[antennas][points[i]][b].e_field_vm

\* C12 witness: for an analysed point one building of the site adds 12 dB and
\* lowers the field when it joins the list, and another changes nothing.
C12_AddedBuildingBlocks ==
    /\ pc = "done"
    /\ \E i \in 1..Len(results) : \E b, c \in 1..Len(Buildings) :
          /\ results[i].los_set
          /\ LosWithoutBuilding[antennas][points[i]][b].building_attenuation_db + 12
                = results[i].building_attenuation_db
          /\ results[i].e_field_vm < LosWithoutBuilding[antennas][points[i]][b].e_field_vm
          /\ Buildings[c].id # results[i].building_id
          /\ LosWithoutBuilding[antennas][points[i]][c].e_field_vm = results[i].e_field_vm

\* indices of the sampled points within the radius of the base position
KeptIndices ==
    {i \in 1..Len(all_points) :
        (all_points[i].x - base_position.e) * (all_points[i].x - base_position.e)
          + (all_points[i].y - base_position.n) * (all_points[i].y - base_position.n)
          <= radius_m * radius_m}

\* C13: filter_points_by_distance returns exactly the input points whose
\* horizontal distance from the site base position is <= the radius (a point
\* exactly on the radius is kept), in their original order; consequently no
\* result of analyze_site lies farther than radius_m from the base.
C13_RadiusFilterKeepsExactlyPointsWithinRadius ==
    /\ pc = "start" =>
          /\ Len(points) = Cardinality(KeptIndices)
          /\ \A i \in KeptIndices :
                points[Cardinality({j \in KeptIndices : j <= i})] = all_points[i]
    /\ pc = "done" =>
          \A i \in 1..Len(results) :
              (results[i].x - base_position.e) * (results[i].x - base_position.e)
                + (results[i].y - base_position.n) * (results[i].y - base_position.n)
                <= radius_m * radius_m

\* C13 witness: the filter has removed points beyond the radius from between
\* kept ones and has kept a point exactly on the radius, and the run has
\* produced results.
C13_PointOnRadiusKept ==
    /\ pc = "done"
    /\ 0 < Len(points) /\ Len(points) < Len(all_points)
    /\ Len(results) = Len(points)
    /\ \E i, j \in KeptIndices : \E m \in 1..Len(all_points) :
          i < m /\ m < j /\ m \notin KeptIndices
    /\ \E i \in 1..Len(results) :
          (results[i].x - base_position.e) * (results[i].x - base_position.e)
            + (results[i].y - base_position.n) * (results[i].y - base_position.n)
            = radius_m * radius_m

\* p lies on the segment from a to b
OnSegment(p, a, b) ==
    /\ (b[1] - a[1]) * (p[2] - a[2]) = (b[2] - a[2]) * (p[1] - a[1])
    /\ (a[1] <= p[1] /\ p[1] <= b[1]) \/ (b[1] <= p[1] /\ p[1] <= a[1])
    /\ (a[2] <= p[2] /\ p[2] <= b[2]) \/ (b[2] <= p[2] /\ p[2] <= a[2])

\* the segment from a to b passes strictly above p
CrossesAbove(p, a, b) ==
    /\ (a[1] <= p[1]) # (b[1] <= p[1])
    /\ IF b[1] > a[1]
       THEN (p[1] - a[1]) * (b[2] - a[2]) > (p[2] - a[2]) * (b[1] - a[1])
       ELSE (p[1] - a[1]) * (b[2] - a[2]) < (p[2] - a[2]) * (b[1] - a[1])

EdgeEnd(polygon, i) == polygon[(i % Len(polygon)) + 1]

\* p belongs to the closed region bounded by the polygon: on an edge, or an
\* odd number of edges above it
InsideClosedPolygon(p, polygon) ==
    \/ \E i \in 1..Len(polygon) : OnSegment(p, polygon[i], EdgeEnd(polygon, i))
    \/ Cardinality({i \in 1..Len(polygon) : CrossesAbove(p, polygon[i], EdgeEnd(polygon, i))}) % 2 = 1

PointPos(p) == <<p.x, p.y, p.z>>

\* C14: every point a sampler has emitted for a surface lies in the plane of
\* the surface, and its projection onto the (u, v) frame lies inside the
\* surface's polygon and inside the polygon's bounding box; a cell centre
\* outside the polygon is never emitted.
C14_SampledPointsLieInsideThePolygon ==
    smp_pc \in {"loop", "returned"} =>
        LET vertices == smp_surface.vertices
            normal == calculate_normal(vertices)
            uv == create_local_coordinate_system(normal)
            polygon == LocalCoords(vertices, uv)
        IN \A k \in 1..Len(smp_points) :
            LET d == Sub(PointPos(smp_points[k]), vertices[1])
                local_pt == <<Dot(d, uv[1]) \div 5, Dot(d, uv[2]) \div 5>>
            IN /\ Dot(d, normal) = 0
               /\ InsideClosedPolygon(local_pt, polygon)
               /\ SeqMin(Column(polygon, 1)) <= local_pt[1]
               /\ local_pt[1] <= SeqMax(Column(polygon, 1))
               /\ SeqMin(Column(polygon, 2)) <= local_pt[2]
               /\ local_pt[2] <= SeqMax(Column(polygon, 2))

\* a sampler has returned for a surface of which some cell centres are inside
\* and some outside
C14_SomeCellsOutside ==
    /\ smp_pc = "returned"
    /\ smp_surface.shape \in {"triangle", "L", "notch"}
    /\ smp_points # <<>>
    /\ LET grid == SamplerGrid(smp_surface.vertices, smp_resolution)
       IN Len(smp_points) < Len(grid.u_coords) * Len(grid.v_coords)

SetMin(S) == CHOOSE x \in S : \A y \in S : x <= y

SetMax(S) == CHOOSE x \in S : \A y \in S : x >= y

Coords(vertices, c) == {vertices[i][c] : i \in 1..Len(vertices)}

Span(vertices, c) == SetMax(Coords(vertices, c)) - SetMin(Coords(vertices, c))

\* the centres r/2 + i*r of the cells of width r between lo and hi
CellCentres(lo, hi, r) == {lo + r \div 2 + i * r : i \in 0..((hi - lo) \div r - 1)}

\* the cell centres of an upright rectangular wall in a plane of constant x
\* or constant y
WallCellCentres(vertices, r) ==
    {<<x, y, z>> :
        x \in (IF Span(vertices, 1) = 0 THEN Coords(vertices, 1)
               ELSE CellCentres(SetMin(Coords(vertices, 1)), SetMax(Coords(vertices, 1)), r)),
        y \in (IF Span(vertices, 2) = 0 THEN Coords(vertices, 2)
               ELSE CellCentres(SetMin(Coords(vertices, 2)), SetMax(Coords(vertices, 2)), r)),
        z \in CellCentres(SetMin(Coords(vertices, 3)), SetMax(Coords(vertices, 3)), r)}

\* C15: for a vertical rectangular wall of width W and height H, both whole
\* multiples of the resolution r, the sampler returns exactly (W/r)*(H/r)
\* points, one at each cell centre r/2 + i*r by r/2 + j*r; the 10 m x 3 m
\* wall with normal (1, 0, 0) at r = 1 m gives 30 points, none nearer than
\* 0.5 m to an edge.
C15_RectangularWallGivesOnePointPerCell ==
    (/\ smp_pc = "returned"
     /\ smp_surface.shape = "rect"
     /\ (Span(smp_surface.vertices, 1) + Span(smp_surface.vertices, 2)) % smp_resolution = 0
     /\ Span(smp_surface.vertices, 3) % smp_resolution = 0) =>
        LET vertices == smp_surface.vertices
            W == Span(vertices, 1) + Span(vertices, 2)
            H == Span(vertices, 3)
        IN /\ Len(smp_points) = (W \div smp_resolution) * (H \div smp_resolution)
           /\ {PointPos(smp_points[k]) : k \in 1..Len(smp_points)} = WallCellCentres(vertices, smp_resolution)
           /\ Cardinality(WallCellCentres(vertices, smp_resolution)) = Len(smp_points)
           /\ (smp_surface = ExampleWall /\ smp_resolution = 10) =>
                /\ Len(smp_points) = 30
                /\ \A k \in 1..Len(smp_points) :
                    /\ smp_points[k].normal = <<5, 0, 0>>
                    /\ smp_points[k].y >= 5 /\ smp_points[k].y <= 95
                    /\ smp_points[k].z >= 5 /\ smp_points[k].z <= 25

\* sample_facade_polygon has returned the points of the 10 m x 3 m wall
C15_ExampleWallSampled ==
    /\ smp_pc = "returned"
    /\ smp_kind = "facade"
    /\ smp_surface = ExampleWall
    /\ smp_resolution = 10
    /\ Len(smp_points) = 30

\* positions in the OMEN list of the points that have an expected field
RefIndices(omens) == {i \in 1..Len(omens) : omens[i].e_field_expected # NoValue}

\* the k-th OMEN that has an expected field
KthRef(omens, k) ==
    omens[CHOOSE i \in RefIndices(omens) : Cardinality({j \in RefIndices(omens) : j <= i}) = k]

\* C16: the validator's rows are, in order, the OMEN points that have an
\* expected field value, and no others; the status of a row is OK exactly
\* when the absolute deviation of the computed from the expected field, as a
\* percentage of the expected field, is at most the tolerance, and DEVIATION
\* otherwise; the written file holds exactly these rows.
C16_ValidatorRowsAndStatus ==
    /\ Len(validation_results) <= Cardinality(RefIndices(omen_locations))
    /\ \A k \in 1..Len(validation_results) :
        LET omen == KthRef(omen_locations, k)
            row == validation_results[k]
            expected == omen.e_field_expected[1]
            within == /\ expected > 0
                      /\ 100 * Abs(OmenCalculated(omen, antennas) - expected) <= tolerance_percent * expected
        IN /\ row.omen_nr = omen.nr
           /\ row.e_expected_vm = expected
           /\ row.e_calculated_vm = OmenCalculated(omen, antennas)
           /\ row.status \in {"OK", "DEVIATION"}
           /\ row.status = "OK" <=> within
    /\ (omen_pc = "returned" /\ omen_to_building = <<>>) =>
        /\ Len(validation_results) = Cardinality(RefIndices(omen_locations))
        /\ omen_csv = validation_results

\* the validator has written a file for a list with a point without expected
\* value, a point whose deviation is exactly the tolerance and a point beyond it
C16_RowAtTheTolerance ==
    /\ omen_pc = "returned"
    /\ omen_csv # <<>> /\ omen_csv = validation_results
    /\ \E i \in 1..Len(omen_locations) : omen_locations[i].e_field_expected = NoValue
    /\ \E k \in 1..Len(omen_csv) :
        /\ omen_csv[k].status = "OK"
        /\ omen_csv[k].deviation_vm # 0
        /\ 100 * Abs(omen_csv[k].deviation_vm) = tolerance_percent * omen_csv[k].e_expected_vm
    /\ \E k \in 1..Len(omen_csv) : omen_csv[k].status = "DEVIATION"

Cross2(a, b, c) == (b[1] - a[1]) * (c[2] - a[2]) - (b[2] - a[2]) * (c[1] - a[1])

\* p lies in the closed triangle a, b, c
InTriangle(p, a, b, c) ==
    \/ Cross2(a, b, p) >= 0 /\ Cross2(b, c, p) >= 0 /\ Cross2(c, a, p) >= 0
    \/ Cross2(a, b, p) <= 0 /\ Cross2(b, c, p) <= 0 /\ Cross2(c, a, p) <= 0

\* p lies in the convex hull of the points
InHull(p, pts) ==
    \/ \E a \in pts, b \in pts, c \in pts : Cross2(a, b, c) # 0 /\ InTriangle(p, a, b, c)
    \/ \E a \in pts, b \in pts : OnSegment(p, a, b)

\* p lies in the interior of the convex hull of the points
InsideHull(p, pts) ==
    /\ InHull(p, pts)
    /\ ~\E a \in pts, b \in pts :
        a # b /\ Cross2(a, b, p) = 0 /\ \A c \in pts : Cross2(a, b, c) >= 0

\* the OMEN height is within 0.5 m of the height range of the vertices
WithinHeightRange(omen, vertices) ==
    /\ vertices # {}
    /\ SetMin({v[3] : v \in vertices}) - 1 <= omen.position.h
    /\ omen.position.h <= SetMax({v[3] : v \in vertices}) + 1

VerticesOf(building_id) ==
    UNION {AllVertices(OmenBuildings[k]) : k \in {m \in 1..Len(OmenBuildings) : OmenBuildings[m].id = building_id}}

\* the OMEN passes the height gate and lies in the plan of the building; with
\* strict = TRUE it lies in the interior of the plan
PassesGates(omen, building_id, strict) ==
    /\ WithinHeightRange(omen, VerticesOf(building_id))
    /\ IF strict
       THEN InsideHull(<<omen.position.e, omen.position.n>>, {<<v[1], v[2]>> : v \in VerticesOf(building_id)})
       ELSE InHull(<<omen.position.e, omen.position.n>>, {<<v[1], v[2]>> : v \in VerticesOf(building_id)})

\* the OMENs of the list that the assignment loop has handled
AssignedOmens ==
    {omen_locations[i] : i \in {j \in 1..Len(omen_locations) : omen_locations[j].nr \in DOMAIN omen_to_building}}

\* C17: every OMEN handled by the assignment has at most one building; the
\* building is the first one in iteration order that passes the height gate
\* (OMEN height within 0.5 m of the vertex height range) and the planar
\* gate, no building before it passes both gates, and an OMEN without a
\* building has none that passes both. Several OMENs may have the same
\* building.
C17_FirstMatchingBuildingOwnsTheOmen ==
    /\ (omen_pc = "returned" /\ omen_to_building # <<>>) =>
        /\ \A i \in 1..Len(omen_locations) : omen_locations[i] \in AssignedOmens
        /\ Len(omen_csv) = Len(omen_locations)
        /\ \A omen \in AssignedOmens : \E k \in 1..Len(omen_csv) :
            omen_csv[k].omen_nr = omen.nr /\ omen_csv[k].building_id = omen_to_building[omen.nr]
    /\ \A omen \in AssignedOmens :
        LET order == buildings_to_check(omen_results, OmenBuildings)
            owner == omen_to_building[omen.nr]
        IN /\ owner = NoBuilding \/ Len(owner) = 1
           /\ owner # NoBuilding =>
                \E k \in 1..Len(order) :
                    /\ order[k] = owner[1]
                    /\ PassesGates(omen, order[k], FALSE)
                    /\ \A j \in 1..(k - 1) : ~PassesGates(omen, order[j], TRUE)
           /\ owner = NoBuilding =>
                \A j \in 1..Len(order) : ~PassesGates(omen, order[j], TRUE)

\* the assignment has returned; one OMEN lies inside two buildings of the
\* iteration order and two OMENs have the same building
C17_TwoCandidatesAndSharedBuilding ==
    /\ omen_pc = "returned"
    /\ omen_to_building # <<>>
    /\ \E omen \in AssignedOmens :
        LET order == buildings_to_check(omen_results, OmenBuildings)
        IN \E j \in 1..Len(order), k \in 1..Len(order) :
            /\ j < k
            /\ PassesGates(omen, order[j], TRUE) /\ PassesGates(omen, order[k], TRUE)
            /\ omen_to_building[omen.nr] = <<order[j]>>
    /\ \E a \in AssignedOmens, b \in AssignedOmens :
        /\ a.nr # b.nr
        /\ omen_to_building[a.nr] # NoBuilding
        /\ omen_to_building[a.nr] = omen_to_building[b.nr]

\* patterns/standard_patterns.py, StandardPattern.azimuth_attenuation of the
\* 65 degree sector: min(12 * (phi / phi_3dB)^2, Am) in whole dB, phi in half degrees
azimuth_attenuation(phi) ==
    LET p == ((phi + 360) % 720) - 360
        a == (12 * p * p) \div (130 * 130)
    IN IF a < 25 THEN a ELSE 25

\* StandardPattern.elevation_attenuation of the 7 degree sector
elevation_attenuation(theta) ==
    LET a == (12 * theta * theta) \div (14 * 14)
    IN IF a < 30 THEN a ELSE 30

\* C18: for an antenna whose (antenna_type, frequency_band) has no entry in
\* the pattern map, the contribution is computed with the horizontal and
\* vertical attenuation of the standard analytical sector pattern at the
\* critical angles.
C18_MissingPatternUsesAnalyticalPattern ==
    (/\ krn_contribution # <<>>
     /\ <<krn_antenna.antenna_type, krn_antenna.frequency_band>> \notin DOMAIN KernelPatterns) =>
        /\ krn_contribution[1].h_attenuation_db = azimuth_attenuation(krn_search.critical_azimuth)
        /\ krn_contribution[1].v_attenuation_db = elevation_attenuation(krn_search.critical_elevation)

\* C19: the horizontal and the vertical attenuation read from a pattern at an
\* angle and at the angle plus or minus whole turns of 360 degrees are equal,
\* for negative angles too (-70 and 290 degrees).
C19_PatternLookupIsCyclic ==
    krn_atten # <<>> =>
        \A k \in DOMAIN krn_atten :
            /\ krn_atten[k].h = krn_atten[0].h
            /\ krn_atten[k].v = krn_atten[0].v

\* -70 degrees has been looked up in the pattern tabulated from -180 to 180
\* degrees, where -70 and 290 degrees are different table positions
C19_NegativeAngleLookedUp ==
    /\ krn_pc = "done"
    /\ krn_angle = -140
    /\ krn_antenna.frequency_band = "1800"
    /\ krn_atten # <<>>
    /\ krn_atten[0].h > 0
    /\ krn_atten[0].h # get_h_attenuation_unwrapped(KernelPattern(krn_antenna), krn_angle)

\* C20: the tilts evaluated for an antenna are the whole-degree steps from
\* tilt_from through tilt_to, both ends included, when tilt_from < tilt_to
\* (also for limits that are not whole degrees), and the nominal tilt alone
\* when tilt_from = tilt_to.
C20_SweepCoversBothEndTilts ==
    krn_contribution # <<>> =>
        LET evaluated == {krn_evaluated[i] : i \in 1..Len(krn_evaluated)}
            tilt_from == krn_antenna.tilt_from_deg
            tilt_to == krn_antenna.tilt_to_deg
        IN /\ tilt_from = tilt_to => evaluated = {krn_antenna.tilt_deg}
           /\ tilt_from < tilt_to =>
                /\ tilt_from \in evaluated /\ tilt_to \in evaluated
                /\ \A t \in evaluated : tilt_from <= t /\ t <= tilt_to /\ (t - tilt_from) % 2 = 0

\* np.interp(x, xp, fp, period=360): between the last sample and the first
\* sample of the next turn the value runs linearly from fp[n] to fp[1]
CyclicInterp(x, xp, fp) ==
    LET n == Len(xp)
        inside == {y \in {x - 720, x, x + 720} : xp[1] <= y /\ y <= xp[n]}
    IN IF inside # {} THEN Interp(CHOOSE y \in inside : TRUE, xp, fp)
       ELSE Interp(CHOOSE y \in {x, x + 720} : xp[n] < y /\ y < xp[1] + 720,
                   <<xp[n], xp[1] + 720>>, <<fp[n], fp[1]>>)

\* C21: the horizontal attenuation at an angle between the last tabulated
\* angle and 360 degrees (or below the first tabulated angle) is the maximum
\* gain minus the gain interpolated linearly between the last and the first
\* sample across the wrap, not the gain of the nearest edge sample.
C21_InterpolatesAcrossTheWrap ==
    krn_atten # <<>> =>
        LET pattern == KernelPattern(krn_antenna)
        IN krn_atten[0].h =
              SeqMax(pattern.h_gains) - CyclicInterp(krn_angle % 720, pattern.h_angles, pattern.h_gains)

\* ids of the buildings of which the segment from the antenna to the
\* result's point meets some wall, the result's own building included
BuildingIdsOnSegment(r, ants) ==
    {Buildings[b].id : b \in {c \in 1..Len(Buildings) : HitWalls(r, ants, c) # {}}}

\* BuildingIdsOnSegment for every antenna system and site point
IdsOnSegmentOf ==
    [a \in AntennaSystems |-> [pt \in SitePointSet |-> BuildingIdsOnSegment(pt, a)]]

\* C22: the building that owns the sample point is never among the blockers
\* of that point, whatever its walls intersect; every other building of the
\* list of which the segment meets a wall is a blocker, the building the
\* antenna stands on included.
C22_OwnBuildingIsNeverABlocker ==
    pc \in {"attenuate", "done"} =>
        \A i \in 1..Len(results) :
            results[i].los_set =>
                LET r == results[i]
                    ids == {r.blocking_building_ids[k] : k \in 1..Len(r.blocking_building_ids)}
                IN /\ r.building_id \notin ids
                   /\ SamePoint(r, points[i])
                   /\ ids = IdsOnSegmentOf[antennas][points[i]] \ {r.building_id}
                   /\ r.num_buildings_blocking = Cardinality(ids)
                   /\ r.has_los = (ids = {})

\* C22 witness: the segment to an analysed point crosses a wall of the
\* point's own building and a wall of the antenna's building B5; only B5 is
\* recorded as blocker.
C22_OwnWallCrossedAndAntennaBuildingBlocks ==
    /\ pc = "done"
    /\ \E i \in 1..Len(results) :
          /\ results[i].los_set
          /\ results[i].building_id \in IdsOnSegmentOf[antennas][points[i]]
          /\ results[i].blocking_building_ids = <<"B5">>

\* The plane of the triangle (v0, v1, v2) has the normal N = (v1-v0) x (v2-v0).
\* The line o + tau * (e - o) meets it at tau = num / den with
\* den = N . (e - o) and num = N . (v0 - o); den = 0 for a line parallel to
\* the plane and for a triangle without area.
PlaneDen(o, e, v0, v1, v2) == Dot(Cross(Sub(v1, v0), Sub(v2, v0)), Sub(e, o))

PlaneNum(o, e, v0, v1, v2) == Dot(Cross(Sub(v1, v0), Sub(v2, v0)), Sub(v0, o))

\* the point where the line meets the plane lies in the closed triangle: it
\* is on the inner side of each of the three edges (all scaled by den)
LineMeetsTriangle(o, e, v0, v1, v2) ==
    LET N == Cross(Sub(v1, v0), Sub(v2, v0))
        den == PlaneDen(o, e, v0, v1, v2)
        num == PlaneNum(o, e, v0, v1, v2)
        sg == IF den > 0 THEN 1 ELSE -1
        Q(a) == <<den * (o[1] - a[1]) + num * (e[1] - o[1]),
                  den * (o[2] - a[2]) + num * (e[2] - o[2]),
                  den * (o[3] - a[3]) + num * (e[3] - o[3])>>
        Inner(a, b) == sg * Dot(Cross(Sub(b, a), Q(a)), N) >= 0
    IN den # 0 /\ Inner(v0, v1) /\ Inner(v1, v2) /\ Inner(v2, v0)

\* where on the line the triangle is met: "behind" the antenna (t <= 0), on
\* the "segment" (0 < t <= segment length), "beyond" the point, or "none"
TriangleSide(o, e, v0, v1, v2) ==
    LET den == PlaneDen(o, e, v0, v1, v2)
        num == PlaneNum(o, e, v0, v1, v2)
        sg == IF den > 0 THEN 1 ELSE -1
    IN IF ~LineMeetsTriangle(o, e, v0, v1, v2) THEN "none"
       ELSE IF sg * num <= 0 THEN "behind"
       ELSE IF sg * num <= sg * den THEN "segment"
       ELSE "beyond"

\* the sides on which the line from the antenna to the result's point meets
\* the fan triangles of the walls of building b
WallSides(r, ants, b) ==
    LET o == <<AntennaLosPos(ants).e, AntennaLosPos(ants).n, AntennaLosPos(ants).h>>
        e == <<r.x, r.y, r.z>>
    IN {TriangleSide(o, e, Buildings[b].wall_surfaces[w][1],
                     Buildings[b].wall_surfaces[w][i], Buildings[b].wall_surfaces[w][i + 1]) :
            <<w, i>> \in {wi \in (1..Len(Buildings[b].wall_surfaces)) \X (2..3) :
                            wi[2] + 1 <= Len(Buildings[b].wall_surfaces[wi[1]])}}

\* some fan triangle of building b is parallel to the line or has no area
HasParallelTriangle(r, ants, b) ==
    LET o == <<AntennaLosPos(ants).e, AntennaLosPos(ants).n, AntennaLosPos(ants).h>>
        e == <<r.x, r.y, r.z>>
    IN \E w \in 1..Len(Buildings[b].wall_surfaces) :
          PlaneDen(o, e, Buildings[b].wall_surfaces[w][1],
                   Buildings[b].wall_surfaces[w][2], Buildings[b].wall_surfaces[w][3]) = 0

\* WallSides for every antenna system, site point and building
WallSidesOf ==
    [a \in AntennaSystems |->
        [pt \in SitePointSet |-> [b \in 1..Len(Buildings) |-> WallSides(pt, a, b)]]]

\* C23: a building other than the point's own is recorded as blocker of an
\* analysed point exactly when the line from the antenna meets one of its
\* wall triangles at a ray parameter t with 0 < t <= segment length; a wall
\* met only behind the antenna or beyond the point does not block, and a
\* triangle parallel to the ray or without area (determinant 0) is no hit.
C23_OnlyTrianglesOnTheSegmentBlock ==
    pc \in {"attenuate", "done"} =>
        \A i \in 1..Len(results) : \A b \in 1..Len(Buildings) :
            (results[i].los_set /\ Buildings[b].id # results[i].building_id) =>
                SamePoint(results[i], points[i]) /\
                ((\E k \in 1..Len(results[i].blocking_building_ids) :
                      results[i].blocking_building_ids[k] = Buildings[b].id)
                 <=> "segment" \in WallSidesOf[antennas][points[i]][b])

\* C23 witness: for one analysed point the line meets a building behind the
\* antenna, a building beyond the point and a building on the segment, and a
\* fourth building's wall is parallel to it; only the third is a blocker.
C23_WallsBehindBeyondAndParallel ==
    /\ pc = "done"
    /\ \E i \in 1..Len(results) : \E b1, b2, b3, b4 \in 1..Len(Buildings) :
          /\ results[i].los_set
          /\ WallSidesOf[antennas][points[i]][b1] = {"behind"}
          /\ WallSidesOf[antennas][points[i]][b2] = {"beyond"}
          /\ "segment" \in WallSidesOf[antennas][points[i]][b3]
          /\ Buildings[b3].id # results[i].building_id
          /\ HasParallelTriangle(results[i], antennas, b4)
          /\ results[i].blocking_building_ids = <<Buildings[b3].id>>

\* the cross products of the vertex triples of a surface that are not collinear
TripleNormals(vertices) ==
    {Cross(Sub(vertices[j], vertices[i]), Sub(vertices[k], vertices[i])) :
        <<i, j, k>> \in {t \in (1..Len(vertices)) \X (1..Len(vertices)) \X (1..Len(vertices)) :
                            t[1] < t[2] /\ t[2] < t[3]}}
    \ {<<0, 0, 0>>}

\* abs(n[2]) / |n| > 0.7 for a normal n that is not normalised
TooHorizontal(n) == 100 * n[3] * n[3] > 49 * Dot(n, n)

\* C24: the sampler skips a surface (returns no points before it builds a
\* grid) only if the surface has no three vertices that are not collinear,
\* or, for a wall, if its plane is too horizontal: a polygon whose first
\* three vertices are collinear but which has another non-collinear triple
\* is sampled.
C24_SkippedOnlyWithoutNonCollinearTriple ==
    (smp_pc = "returned" /\ smp_iu = 0) =>
        \/ TripleNormals(smp_surface.vertices) = {}
        \/ /\ smp_kind = "facade"
           /\ \A n \in TripleNormals(smp_surface.vertices) : TooHorizontal(n)

\* C25: sample_facade_polygon returns no points for a surface whose unit
\* normal has |normal_z| > 0.7 and, for every other surface, exactly the
\* points sample_roof_polygon returns for the same polygon and resolution;
\* sample_roof_polygon samples every surface that has a normal, whatever
\* the normal.
C25_RoofSampledUnconditionally ==
    (smp_pc = "returned" /\ Len(smp_surface.vertices) >= 3) =>
        LET vertices == smp_surface.vertices
            n == Cross(Sub(vertices[2], vertices[1]), Sub(vertices[3], vertices[1]))
            on_roof == sample_roof_polygon(vertices, smp_resolution, "B1")
        IN /\ smp_kind = "roof" =>
                /\ smp_points = on_roof
                /\ n # <<0, 0, 0>> => smp_iu > 0
           /\ smp_kind = "facade" =>
                IF TooHorizontal(n) THEN smp_points = <<>> /\ smp_iu = 0
                ELSE smp_points = on_roof

\* C25 witness: sample_roof_polygon has returned the four 1 m cells of the
\* pitched roof with normal_z = 0.8, for which sample_facade_polygon returns
\* nothing.
C25_PitchedRoofSampled ==
    /\ smp_pc = "returned"
    /\ smp_kind = "roof"
    /\ smp_surface.shape = "pitched"
    /\ smp_resolution = 10
    /\ Len(smp_points) = 4
    /\ SamplerRejects("facade", smp_surface.vertices)
    /\ \A k \in 1..Len(smp_points) : smp_points[k].normal = <<0, 3, 4>>

\* C26: an OMEN handled by the assignment is unassigned exactly when no
\* building of the loaded building list passes both the height gate and the
\* polygon gate, whether or not the results hold a point of that building
\* (an OMEN on the outline of a plan may go either way).
C26_UnassignedOnlyWhenNoLoadedBuildingMatches ==
    \A omen \in AssignedOmens :
        /\ omen_to_building[omen.nr] = NoBuilding =>
              \A b \in 1..Len(OmenBuildings) : ~PassesGates(omen, OmenBuildings[b].id, TRUE)
        /\ omen_to_building[omen.nr] # NoBuilding =>
              \E b \in 1..Len(OmenBuildings) : PassesGates(omen, OmenBuildings[b].id, FALSE)

\* the start of the LOS segment for a mast offset that is at least 3 m
FlooredLosPos(ants) ==
    [e |-> base_position.e, n |-> base_position.n,
     h |-> base_position.h + (IF MastOffset(ants, base_position) < 3 THEN 3
                              ELSE MastOffset(ants, base_position))]

\* C27: the LOS segment of every analysed point starts at least 3 m above
\* the base position, also when every antenna sits less than 3 m above the
\* base: the mast offset is at least 3 and the recorded blockers are those
\* of the segment from the base position raised by max(offset, 3).
C27_LosStartAtLeastThreeMetresAboveBase ==
    (pc \in {"attenuate", "done"} /\ results # <<>>) =>
        /\ MastOffset(antennas, base_position) >= 3
        /\ \A i \in 1..Len(results) :
              results[i].los_set =>
                  LET los == check_line_of_sight_3d(FlooredLosPos(antennas),
                                 [e |-> results[i].x, n |-> results[i].y, h |-> results[i].z],
                                 SelectOthers(Buildings, results[i].building_id))
                  IN results[i].blocking_building_ids = [k \in 1..Len(los[2]) |-> los[2][k].id]

\* C28: the driver computes serially, and never creates the pool, whenever
\* len(points) < n_workers * 10; it maps the points over the pool only when
\* len(points) >= n_workers * 10; for an empty point list it returns an
\* empty list without computing anything.
C28_SerialBelowTenPointsPerWorker ==
    /\ pc = "serial" => (points # <<>> /\ Len(points) < n_workers * 10)
    /\ pc = "pool" => Len(points) >= n_workers * 10
    /\ pc \in {"serial", "pool", "computed", "attenuate", "done"} =>
          IF Len(points) < n_workers * 10
          THEN pool_next = 0 /\ pool_value = <<>> /\ \A w \in DOMAIN pool_busy : pool_busy[w] = 0
          ELSE pool_next >= 1 /\ Len(pool_value) = Len(points)
    /\ pc \in {"computed", "attenuate", "done"} =>
          /\ Len(results) = Len(points)
          /\ points = <<>> => results = <<>>

\* C28 witness: with two workers 19 points have been computed without a pool
C28_NineteenPointsComputedSerially ==
    /\ pc = "computed"
    /\ n_workers = 2
    /\ Len(points) = 19
    /\ Len(results) = 19
    /\ pool_next = 0 /\ pool_value = <<>>

\* C29: the contribution recorded for an antenna at a point has distance_m
\* equal to the 3D distance from the antenna to the point and a critical
\* tilt that the search has evaluated, and its field is the field at that
\* distance, also for an antenna whose tilt_from_deg is greater than its
\* tilt_to_deg or whose pattern is missing.
C29_ContributionAtTheTrueDistance ==
    krn_contribution # <<>> =>
        LET c == krn_contribution[1]
            distance == calculate_relative_angles(krn_antenna.position, krn_point,
                            krn_antenna.azimuth_deg, krn_antenna.tilt_deg)[1]
        IN /\ c.distance_m = distance
           /\ \E k \in 1..Len(krn_evaluated) : krn_evaluated[k] = c.critical_tilt_deg
           /\ c.e_field_vm = calculate_e_field_with_pattern(krn_antenna.erp_watts, distance,
                                 c.h_attenuation_db, c.v_attenuation_db, 0)

\* what a step of the LOS pass (LOS analysis, attenuation loop, hotspot
\* selection) may do to the results
LosStepChange ==
    pc \in {"computed", "attenuate"} =>
        /\ Len(results') = Len(results)
        /\ \A i \in 1..Len(results) :
              /\ results'[i].e_field_vm <= results[i].e_field_vm
              /\ ~results[i].exceeds_limit => ~results'[i].exceeds_limit
              /\ results[i].free_set =>
                    /\ results'[i].e_field_vm = results[i].e_field_vm
                    /\ results'[i].e_field_free_vm = results[i].e_field_free_vm
                    /\ results'[i].exceeds_limit = results[i].exceeds_limit
              /\ results'[i].e_field_vm # results[i].e_field_vm =>
                    /\ ~results[i].free_set /\ results'[i].free_set
                    /\ results'[i].e_field_free_vm = results[i].e_field_vm

\* C30: in every step of the LOS pass of analyze_site the result list keeps
\* its length, no result's e_field_vm increases, no exceeds_limit changes
\* from false to true, and a result changes its e_field_vm only in the one
\* step that saves its free field: the attenuation is applied to a result
\* at most once.
C30_LosStepLowersEachResultAtMostOnce == [][LosStepChange]_vars

\* C30 witness: the pass has finished; it lowered one result below the
\* threshold, so that the result no longer exceeds the limit, and left
\* another one, below the limit but not below the threshold, as it was.
C30_ResultLoweredBelowThreshold ==
    /\ pc = "done"
    /\ \E i, j \in 1..Len(results) :
          /\ results[i].free_set
          /\ results[i].e_field_free_vm >= AGW_LIMIT_VM
          /\ results[i].e_field_vm < results[i].e_field_free_vm
          /\ ~results[i].exceeds_limit
          /\ ~results[j].free_set /\ ~results[j].exceeds_limit
          /\ results[j].e_field_vm >= threshold_vm

====
